---------------------------- MODULE Spec2Model ----------------------------
(***************************************************************************)
(* A model of the Valorant skin price pipeline: the data source manager    *)
(* and its sources, the row/table price extraction, the catalog-total      *)
(* cache (SkinPriceFetcher) and the exchange-rate cache                    *)
(* (CurrencyConverter).                                                    *)
(*                                                                         *)
(* Text is a sequence of characters, each a one-element token: the digits  *)
(* "0".."9", ",", " ", "-", "+", "_", letters, and the two named           *)
(* characters "NBSP" (U+00A0) and "NL" (newline).                          *)
(*                                                                         *)
(* Time is counted in hours.                                               *)
(***************************************************************************)
EXTENDS Integers, Sequences, FiniteSets, TLC

(***************************************************************************)
(* Python text primitives used by the extraction code.                     *)
(***************************************************************************)

DigitChars == <<"0", "1", "2", "3", "4", "5", "6", "7", "8", "9">>

IsDigit(c) == \E i \in 1..10 : DigitChars[i] = c

DigitValue(c) == (CHOOSE i \in 1..10 : DigitChars[i] = c) - 1

\* str.isspace for the characters of the model: NBSP is whitespace to Python
IsSpace(c) == c \in {" ", "NL", "NBSP"}

RECURSIVE LStrip(_)
LStrip(s) ==
    IF s # <<>> /\ IsSpace(Head(s)) THEN LStrip(Tail(s)) ELSE s

RECURSIVE RStrip(_)
RStrip(s) ==
    IF s # <<>> /\ IsSpace(s[Len(s)])
    THEN RStrip(SubSeq(s, 1, Len(s) - 1))
    ELSE s

\* str.strip()
Strip(s) == RStrip(LStrip(s))

\* re.sub(r"[\xa0\n,]", "", s)
ReSubDecoration(s) == SelectSeq(s, LAMBDA c : c \notin {"NBSP", "NL", ","})

\* the value of a run of digit characters
RECURSIVE DigitsValue(_)
DigitsValue(s) ==
    IF s = <<>> THEN 0
    ELSE 10 * DigitsValue(SubSeq(s, 1, Len(s) - 1)) + DigitValue(s[Len(s)])

\* the digits-and-underscores body int() accepts: digits, single underscores
\* only between digits
IntBodyOk(s) ==
    /\ s # <<>>
    /\ \A i \in 1..Len(s) :
          \/ IsDigit(s[i])
          \/ s[i] = "_" /\ 1 < i /\ i < Len(s) /\ s[i + 1] # "_"

\* int(s): [ok |-> TRUE, val |-> n], or ok = FALSE for a ValueError
PyInt(s) ==
    LET t == Strip(s)
        signed == t # <<>> /\ Head(t) \in {"-", "+"}
        body == IF signed THEN Tail(t) ELSE t
        mag == DigitsValue(SelectSeq(body, IsDigit))
    IN  IF IntBodyOk(body)
        THEN [ok |-> TRUE,
              val |-> IF signed /\ Head(t) = "-" THEN 0 - mag ELSE mag]
        ELSE [ok |-> FALSE, val |-> 0]

\* three digits start at position i of s
ThreeDigitsAt(s, i) ==
    /\ i >= 1 /\ i + 2 <= Len(s)
    /\ \A k \in i..(i + 2) : IsDigit(s[k])

\* (?:,\d{3})* taken greedily: the position just after the groups that
\* start at position j
RECURSIVE CommaGroupsEnd(_, _)
CommaGroupsEnd(s, j) ==
    IF j <= Len(s) /\ s[j] = "," /\ ThreeDigitsAt(s, j + 1)
    THEN CommaGroupsEnd(s, j + 4)
    ELSE j

\* re.search(r'(\d{3,4}(?:,\d{3})*)', s): the leftmost match, greedy;
\* [found |-> TRUE, text |-> group 1] or found = FALSE
ReSearchPrice(s) ==
    LET starts == {k \in 1..Len(s) : ThreeDigitsAt(s, k)}
    IN  IF starts # {}
        THEN LET i == CHOOSE k \in starts : \A m \in starts : k <= m
                 j == IF i + 3 <= Len(s) /\ IsDigit(s[i + 3])
                      THEN i + 4 ELSE i + 3
                 e == CommaGroupsEnd(s, j)
             IN  [found |-> TRUE, text |-> SubSeq(s, i, e - 1)]
        ELSE [found |-> FALSE, text |-> <<>>]

(***************************************************************************)
(* Markup.  A page is the sequence of its tables matching                  *)
(* "table.wikitable.sortable"; a table is the sequence of its rows, the    *)
(* first being the header; a row is the sequence of its td cells; a cell   *)
(* is [marked, text], marked meaning it carries data-sort-value.           *)
(***************************************************************************)

Cell(m, t) == [marked |-> m, text |-> t]

\* a price, or None
None == [some |-> FALSE, val |-> 0]

Some(n) == [some |-> TRUE, val |-> n]

\* row.find("td", {"data-sort-value": True}): index of the first marked
\* cell, 0 when there is none
FirstMarked(row) ==
    LET marked == {i \in 1..Len(row) : row[i].marked}
    IN  IF marked # {}
        THEN CHOOSE i \in marked : \A k \in marked : i <= k
        ELSE 0

MIN_VP == 800

MAX_VP == 6000

\* the fallback without its range check
AnyParsedPrice(price) == IF price.ok THEN Some(price.val) ELSE None

\* `if 800 <= price <= 6000: return price`, for a parsed price
InRangePrice(price) ==
    IF price.ok /\ MIN_VP <= price.val /\ price.val <= MAX_VP
    THEN Some(price.val)
    ELSE None

\* `if price_match:` and int(price_match.group(1).replace(',', ''))
MatchPrice(m) ==
    IF m.found
    THEN InRangePrice(PyInt(SelectSeq(m.text, LAMBDA c : c # ",")))
    ELSE None

\* the price a cell gives on the unmarked path, or None
FallbackCellPrice(cell) == MatchPrice(ReSearchPrice(Strip(cell.text)))

\* p when it is a price, else q
FirstSome(p, q) == IF p.some THEN p ELSE q

\* the loop over the cells: the first cell that gives a price decides
RECURSIVE FallbackScan(_)
FallbackScan(cells) ==
    IF cells = <<>> THEN None
    ELSE FirstSome(FallbackCellPrice(Head(cells)), FallbackScan(Tail(cells)))

\* the marked-cell path: int() of the cleaned text, None on ValueError
ParsedPrice(p) == IF p.ok THEN Some(p.val) ELSE None

MarkedPrice(cell) == ParsedPrice(PyInt(ReSubDecoration(Strip(cell.text))))

\* a row extraction that scans the cells when the marked one does not parse
ScraperPriceFromRowRescanning(row) ==
    LET i == FirstMarked(row)
    IN  IF i # 0 /\ MarkedPrice(row[i]).some THEN MarkedPrice(row[i])
        ELSE FallbackScan(row)

\* PlaywrightScraper._extract_price_from_row
ScraperPriceFromRow(row) ==
    LET i == FirstMarked(row)
    IN  IF i # 0 THEN MarkedPrice(row[i]) ELSE FallbackScan(row)

\* SkinVerifier._extract_price_from_row
VerifierPriceFromRow(row) ==
    LET i == FirstMarked(row)
    IN  IF i # 0 THEN MarkedPrice(row[i]) ELSE FallbackScan(row)

\* FandomWikiRequestsSource._extract_price_from_row: the marked cell only
RequestsPriceFromRow(row) ==
    LET i == FirstMarked(row)
    IN  IF i # 0 THEN MarkedPrice(row[i]) ELSE None

(***************************************************************************)
(* Table extraction.  An outcome of a fetch or an extraction is            *)
(* [raised, prices]: raised for an exception, else the list returned.      *)
(***************************************************************************)

Raise == [raised |-> TRUE, prices |-> <<>>]

Return(ps) == [raised |-> FALSE, prices |-> ps]

\* `if price is not None: prices.append(price)`: what a row adds to the list
Appended(p) == IF p.some THEN <<p.val>> ELSE <<>>

\* table.find_all("tr")[1:]
DataRows(table) == IF table = <<>> THEN <<>> ELSE Tail(table)

\* the rows the loops over target_tables visit, in order: the data rows of
\* tables 2 and 3 (tables[1], and tables[2] if present)
RECURSIVE RowsOfTables(_)
RowsOfTables(tables) ==
    IF tables = <<>> THEN <<>>
    ELSE DataRows(Head(tables)) \o RowsOfTables(Tail(tables))

\* every table after the first
TargetTablesToLast(page) == SubSeq(page, 2, Len(page))

TargetTables(page) ==
    SubSeq(page, 2, IF Len(page) > 2 THEN 3 ELSE Len(page))

\* the row loop of PlaywrightScraper._extract_prices_from_soup
RECURSIVE ScraperRowsPrices(_)
ScraperRowsPrices(rows) ==
    IF rows = <<>> THEN <<>>
    ELSE Appended(ScraperPriceFromRow(Head(rows)))
             \o ScraperRowsPrices(Tail(rows))

\* an extraction that fails on a page without tables only
ExtractPricesFromSoupLenient(page) ==
    IF Len(page) < 1 THEN Raise
    ELSE Return(ScraperRowsPrices(RowsOfTables(TargetTables(page))))

\* PlaywrightScraper._extract_prices_from_soup: tables 2 and 3
ExtractPricesFromSoup(page) ==
    IF Len(page) < 2 THEN Raise
    ELSE Return(ScraperRowsPrices(RowsOfTables(TargetTables(page))))

\* the row loop of FandomWikiRequestsSource._extract_prices
RECURSIVE RequestsRowsPrices(_)
RequestsRowsPrices(rows) ==
    IF rows = <<>> THEN <<>>
    ELSE Appended(RequestsPriceFromRow(Head(rows)))
             \o RequestsRowsPrices(Tail(rows))

\* FandomWikiRequestsSource._extract_prices: table 2 only
RequestsExtractPrices(page) ==
    IF Len(page) < 2 THEN Raise
    ELSE Return(RequestsRowsPrices(DataRows(page[2])))

\* FandomWikiSource._extract_price_from_row: "re" is a local name bound
\* only on the marked path, so the scan of an unmarked row that has a cell
\* raises UnboundLocalError, which the handler does not catch
WikiRowRaises(row) == FirstMarked(row) = 0 /\ row # <<>>

WikiPriceFromRow(row) ==
    LET i == FirstMarked(row)
    IN  IF i # 0 THEN MarkedPrice(row[i]) ELSE None

RECURSIVE WikiRowsPrices(_)
WikiRowsPrices(rows) ==
    IF rows = <<>> THEN <<>>
    ELSE Appended(WikiPriceFromRow(Head(rows)))
             \o WikiRowsPrices(Tail(rows))

\* FandomWikiSource._extract_prices: tables 2 and 3, aborted by a row that
\* raises
WikiExtractPrices(page) ==
    LET rows == RowsOfTables(TargetTables(page))
    IN  IF Len(page) < 2 THEN Raise
        ELSE IF \E i \in 1..Len(rows) : WikiRowRaises(rows[i]) THEN Raise
        ELSE Return(WikiRowsPrices(rows))

\* SkinVerifier._extract_skin_info, as far as the price: no record for a
\* row without cells or with a price that is not positive
SkinInfoPrice(row, price) ==
    IF Len(row) < 1 THEN None
    ELSE IF ~price.some THEN None
    ELSE IF price.val <= 0 THEN None
    ELSE price

\* one turn of the row loop of SkinVerifier._process_skins_table
SkinDetail(row, price) ==
    IF ~price.some THEN <<>> ELSE Appended(SkinInfoPrice(row, price))

\* SkinVerifier._process_skins_table over the rows: the prices of the
\* skin_details, in order
RECURSIVE VerifierRowsPrices(_)
VerifierRowsPrices(rows) ==
    IF rows = <<>> THEN <<>>
    ELSE SkinDetail(Head(rows), VerifierPriceFromRow(Head(rows)))
             \o VerifierRowsPrices(Tail(rows))

\* the decimal digits of a natural number
RECURSIVE NatStr(_)
NatStr(n) ==
    IF n < 10 THEN <<DigitChars[n + 1]>>
    ELSE NatStr(n \div 10) \o <<DigitChars[(n % 10) + 1]>>

UpperChars ==
    <<"A", "B", "C", "D", "E", "F", "G", "H", "I", "J", "K", "L", "M", "N",
      "O", "P", "Q", "R", "S", "T", "U", "V", "W", "X", "Y", "Z">>

LowerChars ==
    <<"a", "b", "c", "d", "e", "f", "g", "h", "i", "j", "k", "l", "m", "n",
      "o", "p", "q", "r", "s", "t", "u", "v", "w", "x", "y", "z">>

\* str.lower()
Lower(text) ==
    [i \in 1..Len(text) |->
        IF \E k \in 1..26 : UpperChars[k] = text[i]
        THEN LowerChars[CHOOSE k \in 1..26 : UpperChars[k] = text[i]]
        ELSE text[i]]

\* `kw in text`
Contains(text, kw) ==
    \E i \in 1..(Len(text) - Len(kw) + 1) :
        SubSeq(text, i, i + Len(kw) - 1) = kw

\* row.get_text(): the texts of the cells, one after the other
RECURSIVE RowText(_)
RowText(row) ==
    IF row = <<>> THEN <<>> ELSE Head(row).text \o RowText(Tail(row))

\* an edition test that looks for the lowest edition first
EditionOfLowestFirst(text) ==
    IF Contains(text, <<"s", "e", "l", "e", "c", "t">>) THEN "Select"
    ELSE IF Contains(text, <<"d", "e", "l", "u", "x", "e">>) THEN "Deluxe"
    ELSE IF Contains(text, <<"p", "r", "e", "m", "i", "u", "m">>)
    THEN "Premium"
    ELSE IF Contains(text, <<"e", "x", "c", "l", "u", "s", "i", "v", "e">>)
    THEN "Exclusive"
    ELSE IF Contains(text, <<"u", "l", "t", "r", "a">>) THEN "Ultra"
    ELSE "Unknown"

\* the if / elif chain of _extract_edition on the lowered row text
EditionOf(text) ==
    IF Contains(text, <<"u", "l", "t", "r", "a">>) THEN "Ultra"
    ELSE IF Contains(text, <<"e", "x", "c", "l", "u", "s", "i", "v", "e">>)
    THEN "Exclusive"
    ELSE IF Contains(text, <<"p", "r", "e", "m", "i", "u", "m">>)
    THEN "Premium"
    ELSE IF Contains(text, <<"d", "e", "l", "u", "x", "e">>) THEN "Deluxe"
    ELSE IF Contains(text, <<"s", "e", "l", "e", "c", "t">>) THEN "Select"
    ELSE "Unknown"

\* the if / elif chain of _extract_source on the lowered row text
SourceOf(text) ==
    IF \/ Contains(text, <<"b", "a", "t", "t", "l", "e", " ", "p", "a", "s",
                           "s">>)
       \/ Contains(text, <<"b", "a", "t", "t", "l", "e", "p", "a", "s", "s">>)
    THEN "Battle Pass"
    ELSE IF Contains(text, <<"a", "g", "e", "n", "t", " ", "g", "e", "a",
                             "r">>)
    THEN "Agent Gear"
    ELSE IF \/ Contains(text, <<"s", "t", "o", "r", "e">>)
            \/ Contains(text, <<"n", "i", "g", "h", "t", " ", "m", "a", "r",
                                "k", "e", "t">>)
    THEN "Store"
    ELSE "Unknown"

\* SkinVerifier._extract_edition
ExtractEdition(row) == EditionOf(Lower(RowText(row)))

\* SkinVerifier._extract_source
ExtractSource(row) == SourceOf(Lower(RowText(row)))

UnknownText == <<"U", "n", "k", "n", "o", "w", "n">>

\* the cell texts that stand for no value: the three characters of the
\* literal in the source (U+00E2, U+20AC and U+201D, the last written by
\* its code point), and the hyphen
DashTexts == {<<"â", "€", "U+201D">>, <<"-">>}

\* skin_name of _extract_skin_info: the stripped text of the first cell, or
\* f"Skin_{row_index}"
SkinName(text, index) ==
    IF text = <<>> \/ text \in DashTexts
    THEN <<"S", "k", "i", "n", "_">> \o NatStr(index)
    ELSE text

\* weapon of _extract_skin_info: the stripped text of the second cell
WeaponOf(row) ==
    IF Len(row) > 1 /\ Strip(row[2].text) # <<>>
                    /\ Strip(row[2].text) \notin DashTexts
    THEN Strip(row[2].text)
    ELSE UnknownText

\* SkinInfo(...)
SkinInfo(row, index, price) ==
    [name |-> SkinName(Strip(row[1].text), index), weapon |-> WeaponOf(row),
     price |-> price, edition |-> ExtractEdition(row),
     source |-> ExtractSource(row), row_index |-> index]

\* one turn of the row loop of _process_skins_table, with
\* _extract_skin_info: the record appended to skin_details, if any
SkinRecord(row, index, price) ==
    IF ~price.some THEN <<>>
    ELSE IF Len(row) < 1 THEN <<>>
    ELSE IF price.val <= 0 THEN <<>>
    ELSE <<SkinInfo(row, index, price.val)>>

\* the skin_details of _process_skins_table, rows being the data rows from
\* index on
RECURSIVE TableDetails(_, _)
TableDetails(rows, index) ==
    IF rows = <<>> THEN <<>>
    ELSE SkinRecord(Head(rows), index, VerifierPriceFromRow(Head(rows)))
             \o TableDetails(Tail(rows), index + 1)

\* skin_details after the loop over target_tables
RECURSIVE DetailsOfTables(_)
DetailsOfTables(tables) ==
    IF tables = <<>> THEN <<>>
    ELSE TableDetails(DataRows(Head(tables)), 0)
             \o DetailsOfTables(Tail(tables))

\* a record with a name, a named weapon and a price
StrictlyValid(skin) ==
    skin.name # <<>> /\ skin.weapon # <<>> /\ skin.weapon # UnknownText
        /\ skin.price > 0

\* `skin.name and skin.weapon and skin.price > 0`
Valid(skin) == skin.name # <<>> /\ skin.weapon # <<>> /\ skin.price > 0

\* what _analyze_data_quality appends to missing_data for one record
MissingOf(skin) ==
    (IF skin.name = <<>> \/ skin.name = UnknownText
     THEN <<[row |-> skin.row_index, what |-> "Missing skin name"]>>
     ELSE <<>>)
    \o (IF skin.weapon = <<>> \/ skin.weapon = UnknownText
        THEN <<[row |-> skin.row_index, what |-> "Missing weapon type"]>>
        ELSE <<>>)
    \o (IF skin.price <= 0
        THEN <<[row |-> skin.row_index, what |-> "Invalid price"]>>
        ELSE <<>>)

RECURSIVE MissingData(_)
MissingData(details) ==
    IF details = <<>> THEN <<>>
    ELSE MissingOf(Head(details)) \o MissingData(Tail(details))

\* a duplicate test that counts a name from its second record on only
DuplicateSkinsFromThird(details) ==
    {details[i].name : i \in {k \in 1..Len(details) :
        Cardinality({j \in 1..Len(details) :
                        details[j].name = details[k].name}) > 2}}

\* set([name for name in names if names.count(name) > 1])
DuplicateSkins(details) ==
    {details[i].name : i \in {k \in 1..Len(details) :
        Cardinality({j \in 1..Len(details) :
                        details[j].name = details[k].name}) > 1}}

\* (valid_skins / total_skins) * 100, in hundredths of a percent
Score(valid, total) == IF total > 0 THEN (valid * 10000) \div total ELSE 0

\* SkinVerifier._analyze_data_quality
AnalyzeDataQuality(details) ==
    [missing_data |-> MissingData(details),
     duplicate_skins |-> DuplicateSkins(details),
     data_quality_score |->
         Score(Cardinality({i \in 1..Len(details) : Valid(details[i])}),
               Len(details))]

\* the results as initialised, for a return before the quality analysis
NoQuality ==
    [missing_data |-> <<>>, duplicate_skins |-> {}, data_quality_score |-> 0]

Analysis(err, ps, details, quality) ==
    [error |-> err, prices |-> ps, skin_details |-> details,
     total_skins |-> Len(details), quality |-> quality]

\* the analysis of the target tables
AnalysisOf(ps, details) ==
    Analysis("", ps, details, AnalyzeDataQuality(details))

\* SkinVerifier._analyze_skins_table: the "error" entry of the results
\* ("" when there is none), the prices of skin_details, the records and
\* what the quality analysis added
AnalyzeSkinsTable(page) ==
    IF page = <<>>
    THEN Analysis("No weapon skins tables found", <<>>, <<>>, NoQuality)
    ELSE IF TargetTables(page) = <<>>
    THEN Analysis("Could not find target tables (2 and 3)", <<>>, <<>>,
                  NoQuality)
    ELSE AnalysisOf(VerifierRowsPrices(RowsOfTables(TargetTables(page))),
                    DetailsOfTables(TargetTables(page)))

EXPECTED_TOTAL == 496

\* a ratio, kept exact
Ratio(n, d) == [num |-> n, den |-> d]

\* a coverage rounded to the nearest percent
CoverageRounded(actual) ==
    Ratio((200 * actual + EXPECTED_TOTAL) \div (2 * EXPECTED_TOTAL), 1)

\* `(actual_total / expected_total) * 100`, or 0
CoverageOf(actual) ==
    IF actual > 0 THEN Ratio(actual * 100, EXPECTED_TOTAL) ELSE Ratio(0, 1)

\* `coverage >= pct`
AtLeast(coverage, pct) == coverage.num >= pct * coverage.den

\* the line the if / elif chain on the coverage appends
CoverageLabel(coverage) ==
    IF AtLeast(coverage, 95) THEN "Coverage is excellent"
    ELSE IF AtLeast(coverage, 80) THEN "Coverage is good"
    ELSE IF AtLeast(coverage, 60) THEN "Coverage is acceptable"
    ELSE "Coverage is poor"

CoverageLabels ==
    {"Coverage is excellent", "Coverage is good", "Coverage is acceptable",
     "Coverage is poor"}

\* a section of the report that is there when its entry is not empty
Section(present, title) == IF present THEN <<title>> ELSE <<>>

\* SkinVerifier.generate_report: the lines of the report, by what they are.
\* The analysis says whether it has an "error" entry, its total_skins, and
\* whether it has missing_data and duplicate_skins.
GenerateReport(analysis) ==
    IF analysis.has_error
    THEN <<"rule", "title", "rule", "ERROR">>
    ELSE <<"rule", "title", "rule", "SUMMARY">>
             \o Section(analysis.missing, "MISSING DATA")
             \o Section(analysis.duplicates, "DUPLICATE SKINS")
             \o <<"COVERAGE ANALYSIS",
                  CoverageLabel(CoverageOf(analysis.total_skins)), "rule">>

(***************************************************************************)
(* The sources.  env is what one call meets: the page served, whether the  *)
(* browser transport (launch, navigation within 30 s) works, whether the   *)
(* HTTP GET works.                                                         *)
(***************************************************************************)

\* PlaywrightScraper.scrape_fandom_wiki: goto, wait_for_selector (times out
\* when no matching table appears), extraction
ScrapeFandomWiki(env) ==
    IF ~env.browserOk THEN Raise
    ELSE IF Len(env.page) = 0 THEN Raise
    ELSE ExtractPricesFromSoup(env.page)

\* FandomWikiSource._fetch_with_requests
WikiFetchWithRequests(env) ==
    IF ~env.httpOk THEN Raise ELSE WikiExtractPrices(env.page)

\* FandomWikiSource.fetch_prices; pw is PLAYWRIGHT_AVAILABLE
WikiFetchPrices(pw, env) ==
    IF pw THEN ScrapeFandomWiki(env) ELSE WikiFetchWithRequests(env)

\* FandomWikiRequestsSource.fetch_prices
RequestsFetchPrices(env) ==
    IF ~env.httpOk THEN Raise ELSE RequestsExtractPrices(env.page)

\* source.fetch_prices() by the class of the source
FetchPrices(src, pw, env) ==
    IF src = "FandomWikiSource"
    THEN WikiFetchPrices(pw, env)
    ELSE RequestsFetchPrices(env)

\* DataSourceManager.__init__
ManagerSources(pw) ==
    IF pw THEN <<"FandomWikiSource">> ELSE <<"FandomWikiRequestsSource">>

\* a loop that takes any list a source returns, the empty one too
AnyResult(o) == ~o.raised

\* `prices and len(prices) > 0`
NonEmptyResult(o) == ~o.raised /\ o.prices # <<>>

\* DataSourceManager.get_prices: the loop over self.sources.  invoked and
\* outcomes list the sources whose fetch_prices ran and what each gave.
\* a loop that goes on after a success and merges what the sources give
TrySourceMerging(src, o, rest) ==
    IF NonEmptyResult(o)
    THEN [raised |-> FALSE, prices |-> o.prices \o rest.prices,
          invoked |-> <<src>> \o rest.invoked,
          outcomes |-> <<o>> \o rest.outcomes]
    ELSE [rest EXCEPT !.invoked = <<src>> \o @, !.outcomes = <<o>> \o @]

\* one turn of the loop: src gave o; rest is what the remaining sources give
TrySource(src, o, rest) ==
    IF NonEmptyResult(o)
    THEN [raised |-> FALSE, prices |-> o.prices,
          invoked |-> <<src>>, outcomes |-> <<o>>]
    ELSE [rest EXCEPT !.invoked = <<src>> \o @, !.outcomes = <<o>> \o @]

RECURSIVE GetPricesFrom(_, _, _)
GetPricesFrom(srcs, pw, env) ==
    IF srcs = <<>>
    THEN [raised |-> TRUE, prices |-> <<>>, invoked |-> <<>>, outcomes |-> <<>>]
    ELSE TrySource(Head(srcs), FetchPrices(Head(srcs), pw, env),
                   GetPricesFrom(Tail(srcs), pw, env))

\* sum(prices)
RECURSIVE Sum(_)
Sum(ps) == IF ps = <<>> THEN 0 ELSE Head(ps) + Sum(Tail(ps))

(***************************************************************************)
(* Cache files.  A Python value is [t, v]: t is its type ("int", "str",    *)
(* "null" for None, "dict" for a rate table) and v its content.  A file is *)
(* [kind, value, timestamp]: kind is "absent", "unreadable" (open fails),  *)
(* "garbage" (empty or truncated text, not JSON), "nonobject" (JSON, but   *)
(* no object) or "object"; value and timestamp are the JSON text under the *)
(* value key ('price' or 'rates') and under 'timestamp': [t, v] with t     *)
(* "number", "string", "null", "object" or "missing" (no such key).        *)
(***************************************************************************)

JInt(n) == [t |-> "int", v |-> n]

JStr(text) == [t |-> "str", v |-> text]

JNull == [t |-> "null", v |-> 0]

JDict(m) == [t |-> "dict", v |-> m]

Number(text) == [t |-> "number", v |-> text]

String(text) == [t |-> "string", v |-> text]

Null == [t |-> "null", v |-> 0]

Missing == [t |-> "missing", v |-> 0]

Object(members) == [t |-> "object", v |-> members]

\* json.dump of an int
IntStr(n) == IF n < 0 THEN <<"-">> \o NatStr(0 - n) ELSE NatStr(n)

\* a float written with one decimal only
FloatReprShort(h) ==
    NatStr(h \div 100) \o <<".">> \o <<DigitChars[((h % 100) \div 10) + 1]>>

\* json.dump of a float (float.__repr__), for a rate of h hundredths: the
\* shortest decimal that reads back as the same float
FloatRepr(h) ==
    NatStr(h \div 100) \o <<".">>
        \o (IF h % 10 = 0
            THEN <<DigitChars[((h % 100) \div 10) + 1]>>
            ELSE <<DigitChars[((h % 100) \div 10) + 1],
                   DigitChars[(h % 10) + 1]>>)

\* the position of the decimal point in a number text, 0 if none
PointAt(text) ==
    IF \E i \in 1..Len(text) : text[i] = "."
    THEN CHOOSE i \in 1..Len(text) : text[i] = "."
    ELSE 0

\* the hundredths a fraction of one or two digits stands for
FractionValue(frac) ==
    IF Len(frac) = 1 THEN 10 * DigitValue(frac[1])
    ELSE DigitsValue(SubSeq(frac, 1, 2))

\* json.load of a number text with a decimal point at position i, in
\* hundredths
ParseFloat(text, i) ==
    100 * DigitsValue(SubSeq(text, 1, i - 1))
        + FractionValue(SubSeq(text, i + 1, Len(text)))

\* json.dump of a value
JsonDump(x) ==
    IF x.t = "int" THEN Number(IntStr(x.v))
    ELSE IF x.t = "str" THEN String(x.v)
    ELSE IF x.t = "dict"
    THEN Object([c \in DOMAIN x.v |-> Number(FloatRepr(x.v[c]))])
    ELSE Null

\* json.load of a member that is present
JsonLoad(j) ==
    IF j.t = "number" /\ PointAt(j.v) = 0 THEN JInt(PyInt(j.v).val)
    ELSE IF j.t = "number"
    THEN [t |-> "float", v |-> ParseFloat(j.v, PointAt(j.v))]
    ELSE IF j.t = "string" THEN JStr(j.v)
    ELSE IF j.t = "object"
    THEN JDict([c \in DOMAIN j.v |-> ParseFloat(j.v[c].v, PointAt(j.v[c].v))])
    ELSE JNull

\* datetime.isoformat() of the time clock (hours): day, "T", hour of the day
IsoFormat(clock) ==
    NatStr(clock \div 24) \o <<"T">>
        \o <<DigitChars[((clock % 24) \div 10) + 1],
             DigitChars[((clock % 24) % 10) + 1]>>

\* the position of the "T" in a timestamp text, 0 if none
TimeAt(text) ==
    IF \E i \in 1..Len(text) : text[i] = "T"
    THEN CHOOSE i \in 1..Len(text) : text[i] = "T"
    ELSE 0

\* the time of a timestamp text whose "T" is at position i
IsoTime(text, i) ==
    IF /\ i > 1
       /\ Len(text) = i + 2
       /\ \A k \in 1..Len(text) : k = i \/ IsDigit(text[k])
       /\ DigitsValue(SubSeq(text, i + 1, i + 2)) < 24
    THEN [ok |-> TRUE,
          val |-> 24 * DigitsValue(SubSeq(text, 1, i - 1))
                      + DigitsValue(SubSeq(text, i + 1, i + 2))]
    ELSE [ok |-> FALSE, val |-> 0]

\* datetime.fromisoformat(text): ok = FALSE for a ValueError
FromIsoFormat(text) == IsoTime(text, TimeAt(text))

\* datetime.fromisoformat(cache_data['timestamp']): ok = FALSE for a
\* KeyError, a TypeError or a ValueError
CacheTime(file) ==
    IF file.kind = "object" /\ file.timestamp.t = "string"
    THEN FromIsoFormat(file.timestamp.v)
    ELSE [ok |-> FALSE, val |-> 0]

JObject(val, ts) == [kind |-> "object", value |-> val, timestamp |-> ts]

Absent == [kind |-> "absent", value |-> Missing, timestamp |-> Missing]

Unreadable == [kind |-> "unreadable", value |-> Missing, timestamp |-> Missing]

Garbage == [kind |-> "garbage", value |-> Missing, timestamp |-> Missing]

NonObject == [kind |-> "nonobject", value |-> Missing, timestamp |-> Missing]

\* what a read returns: hit = FALSE for None
Miss == [hit |-> FALSE, val |-> JNull]

Hit(x) == [hit |-> TRUE, val |-> x]

\* CACHE_DURATION = timedelta(hours=6)
CACHE_DURATION == 6

\* EXCHANGE_RATE_CACHE_DURATION = timedelta(hours=24)
EXCHANGE_RATE_CACHE_DURATION == 24

\* a validity test that still accepts an entry aged exactly the duration
FreshInclusive(clock, cacheTime, duration) == clock - cacheTime <= duration

\* datetime.now() - cache_time < duration
Fresh(clock, cacheTime, duration) == clock - cacheTime < duration

\* `return cache_data[key]`, and the caller's `is not None`
Loaded(x) == IF x.t = "null" THEN Miss ELSE Hit(x)

\* the comparison and the return, cacheTime being what fromisoformat gave
ReadStamped(file, cacheTime, clock, duration) ==
    IF ~cacheTime.ok THEN Miss
    ELSE IF ~Fresh(clock, cacheTime.val, duration) THEN Miss
    ELSE IF file.value.t = "missing" THEN Miss
    ELSE Loaded(JsonLoad(file.value))

\* the body shared by _get_cached_prices and _get_cached_rates: exists(),
\* open, json.load, fromisoformat(cache_data['timestamp']), the comparison,
\* cache_data[key]; every exception gives None, and so does a null value
CacheRead(file, clock, duration) ==
    ReadStamped(file, CacheTime(file), clock, duration)

\* a fetcher that never consults its cache
NeverCached(file, clock) == Miss

\* SkinPriceFetcher._get_cached_prices
GetCachedPrices(file, clock) == CacheRead(file, clock, CACHE_DURATION)

\* CurrencyConverter._get_cached_rates
GetCachedRates(file, clock) ==
    CacheRead(file, clock, EXCHANGE_RATE_CACHE_DURATION)

\* how a write ends: "ok"; "open_error" (open(..., 'w') raises, the file is
\* as before); "write_error" (the file was truncated by open and the dump
\* failed part way)
IOOutcomes == {"ok", "open_error", "write_error"}

\* the body shared by _cache_prices and _cache_rates: the file afterwards
CacheWrite(file, val, clock, io) ==
    IF io = "ok" THEN JObject(JsonDump(val), String(IsoFormat(clock)))
    ELSE IF io = "open_error" THEN file
    ELSE Garbage

\* SkinPriceFetcher._cache_prices
CachePrices(file, price, clock, io) == CacheWrite(file, JInt(price), clock, io)

\* a refresh that leaves the file in place
CacheKeep(file) == file

\* how the unlink of a refresh ends: "ok", or "unlink_error" (unlink raises,
\* as in a directory that cannot be written; the refresh catches it and logs)
UnlinkOutcomes == {"ok", "unlink_error"}

\* the body shared by refresh_cache and refresh_rates: `if exists: unlink`
\* inside a try whose except only logs; the file afterwards
CacheClear(file, io) ==
    IF file = Absent THEN Absent
    ELSE IF io = "ok" THEN Absent
    ELSE file

\* what the refresh did with the file: "none" when there was no file
Unlinked(file, io) == IF file = Absent THEN "none" ELSE io

\* SkinPriceFetcher.refresh_cache
RefreshCacheFile(file, io) == CacheClear(file, io)

\* CurrencyConverter.refresh_rates
RefreshRatesFile(file, io) == CacheClear(file, io)

(***************************************************************************)
(* Exchange rates, in hundredths (1.0 is 100).  A table is a function from *)
(* currency codes to rates.                                                *)
(***************************************************************************)

Codes == {"USD", "AUD", "BRL", "CAD", "EUR", "INR", "MYR", "MXN", "NZD",
          "RUB", "SGD", "TRY", "GBP"}

\* CurrencyConverter._get_fallback_rates
FallbackRates ==
    [c \in Codes |->
        CASE c = "USD" -> 100 [] c = "AUD" -> 150 [] c = "BRL" -> 500
          [] c = "CAD" -> 135 [] c = "EUR" -> 85 [] c = "INR" -> 7500
          [] c = "MYR" -> 420 [] c = "MXN" -> 2000 [] c = "NZD" -> 145
          [] c = "RUB" -> 7500 [] c = "SGD" -> 135 [] c = "TRY" -> 750
          [] c = "GBP" -> 75]

\* CurrencyConverter._cache_rates
CacheRates(file, rates, clock, io) == CacheWrite(file, JDict(rates), clock, io)

\* a live stage that hands on the codes of the response only
ExchangeRateApiRaw(api) ==
    IF ~api.ok THEN [raised |-> TRUE, rates |-> <<>>]
    ELSE [raised |-> FALSE, rates |-> api.rates]

\* CurrencyConverter._fetch_from_exchangerate_api.  api is the response:
\* ok = FALSE for a transport or status error, else the 'rates' object
ExchangeRateApi(api) ==
    IF ~api.ok THEN [raised |-> TRUE, rates |-> <<>>]
    ELSE [raised |-> FALSE,
          rates |-> [c \in Codes |->
                        IF c = "USD" THEN 100
                        ELSE IF c \in DOMAIN api.rates THEN api.rates[c]
                        ELSE FallbackRates[c]]]

\* CurrencyConverter._fetch_from_fallback_api: not implemented, raises
FallbackApi == [raised |-> TRUE, rates |-> <<>>]

\* CurrencyConverter._get_fallback_rates
GetFallbackRates == [raised |-> FALSE, rates |-> FallbackRates]

\* `if rates:` for what a stage gave
NonEmptyRates(o) == ~o.raised /\ DOMAIN o.rates # {}

\* stages that all run, the table of the last one being returned
RunAllStages(live, secondary, static) ==
    [raised |-> FALSE, rates |-> static.rates,
     stages |-> <<"live", "secondary", "static">>,
     results |-> <<live, secondary, static>>]

\* a loop without its static stage
RunStagesWithoutStatic(live, secondary, static) ==
    IF NonEmptyRates(live)
    THEN [raised |-> FALSE, rates |-> live.rates, stages |-> <<"live">>,
          results |-> <<live>>]
    ELSE IF NonEmptyRates(secondary)
    THEN [raised |-> FALSE, rates |-> secondary.rates,
          stages |-> <<"live", "secondary">>,
          results |-> <<live, secondary>>]
    ELSE [raised |-> TRUE, rates |-> <<>>,
          stages |-> <<"live", "secondary">>,
          results |-> <<live, secondary>>]

\* the loop of _fetch_exchange_rates over what the three stages give when
\* called: stages lists those that ran, results what each of them gave
RunStages(live, secondary, static) ==
    IF NonEmptyRates(live)
    THEN [raised |-> FALSE, rates |-> live.rates, stages |-> <<"live">>,
          results |-> <<live>>]
    ELSE IF NonEmptyRates(secondary)
    THEN [raised |-> FALSE, rates |-> secondary.rates,
          stages |-> <<"live", "secondary">>,
          results |-> <<live, secondary>>]
    ELSE IF NonEmptyRates(static)
    THEN [raised |-> FALSE, rates |-> static.rates,
          stages |-> <<"live", "secondary", "static">>,
          results |-> <<live, secondary, static>>]
    ELSE [raised |-> TRUE, rates |-> <<>>,
          stages |-> <<"live", "secondary", "static">>,
          results |-> <<live, secondary, static>>]

\* CurrencyConverter._fetch_exchange_rates: the three stages in order
FetchExchangeRates(api) ==
    RunStages(ExchangeRateApi(api), FallbackApi, GetFallbackRates)

(***************************************************************************)
(* The conversion.  Amounts of money are integers of hundredths; a text is  *)
(* the sequence of its characters.                                         *)
(***************************************************************************)

\* VP_TO_USD_RATE = 1 / 110: the number of VP for one dollar
VP_PER_USD == 110

\* CURRENCY_MAP: per key, the text before the "{:,.2f}" of the format
\* string, and the base price
CatalogEntries ==
    {<<"United States Dollar ($)", <<"$">>, 9999>>,
     <<"Australian Dollar (A$)", <<"A", "$">>, 12999>>,
     <<"Brazilian Real (R$)", <<"R", "$">>, 34990>>,
     <<"Canadian Dollar (CA$)", <<"C", "A", "$">>, 13999>>,
     <<"Euro (€)", <<"€">>, 10000>>,
     <<"Indian Rupee (₹)", <<"₹">>, 790000>>,
     <<"Malaysian Ringgit (MYR)", <<"M", "Y", "R">>, 19990>>,
     <<"Mexican Peso (MX$)", <<"M", "X", "$">>, 199900>>,
     <<"New Zealand Dollar (NZ$)", <<"N", "Z", "$">>, 14499>>,
     <<"Russian Ruble (₽)", <<"₽">>, 599000>>,
     <<"Singapore Dollar (SGD)", <<"S", "G", "D">>, 12898>>,
     <<"Turkish Lira (₺)", <<"₺">>, 70000>>,
     <<"Pound Sterling (£)", <<"£">>, 9000>>}

CurrencyKeys == {e[1] : e \in CatalogEntries}

CURRENCY_MAP ==
    [k \in CurrencyKeys |->
        LET e == CHOOSE e \in CatalogEntries : e[1] = k
        IN  [format |-> e[2], base |-> e[3]]]

\* the dictionary of _get_currency_code
CurrencyCodes ==
    [k \in CurrencyKeys |->
        CASE k = "United States Dollar ($)" -> "USD"
          [] k = "Australian Dollar (A$)" -> "AUD"
          [] k = "Brazilian Real (R$)" -> "BRL"
          [] k = "Canadian Dollar (CA$)" -> "CAD"
          [] k = "Euro (€)" -> "EUR"
          [] k = "Indian Rupee (₹)" -> "INR"
          [] k = "Malaysian Ringgit (MYR)" -> "MYR"
          [] k = "Mexican Peso (MX$)" -> "MXN"
          [] k = "New Zealand Dollar (NZ$)" -> "NZD"
          [] k = "Russian Ruble (₽)" -> "RUB"
          [] k = "Singapore Dollar (SGD)" -> "SGD"
          [] k = "Turkish Lira (₺)" -> "TRY"
          [] k = "Pound Sterling (£)" -> "GBP"]

\* CurrencyConverter._get_currency_code
GetCurrencyCode(key) ==
    IF key \in DOMAIN CurrencyCodes THEN CurrencyCodes[key] ELSE "USD"

\* the digits of the integer part with the "," of the format
RECURSIVE GroupThousands(_)
GroupThousands(digits) ==
    IF Len(digits) <= 3 THEN digits
    ELSE GroupThousands(SubSeq(digits, 1, Len(digits) - 3))
             \o <<",">> \o SubSeq(digits, Len(digits) - 2, Len(digits))

\* "{:,.2f}".format of an amount of cents hundredths
Format2f(cents) ==
    GroupThousands(NatStr(cents \div 100)) \o <<".">>
        \o <<DigitChars[((cents % 100) \div 10) + 1],
             DigitChars[(cents % 10) + 1]>>

\* str.rstrip(c)
RECURSIVE RStripChar(_, _)
RStripChar(s, c) ==
    IF s = <<>> THEN s
    ELSE IF s[Len(s)] # c THEN s
    ELSE RStripChar(SubSeq(s, 1, Len(s) - 1), c)

\* a clean-up that goes on removing zeros after the point is gone
CleanUpGreedy(text) ==
    RStripChar(RStripChar(RStripChar(text, "0"), "."), "0")

\* formatted_amount.rstrip('0').rstrip('.')
CleanUp(text) == RStripChar(RStripChar(text, "0"), ".")

(***************************************************************************)
(* The floats of the conversion.  `vp_amount * VP_TO_USD_RATE * rate` is   *)
(* computed in IEEE 754 doubles, and "{:.2f}" shows the cent nearest to    *)
(* the double it is given, so an amount half way between two cents goes to *)
(* the side the rounding of the products left it on.  A double is kept as  *)
(* [m, e], the value m * 2^e with m of at most 53 bits; m is a natural     *)
(* number of any size, a sequence of limbs, the least significant first.   *)
(***************************************************************************)

Limb == 2 ^ 13

\* the limbs of a natural number below 2^31
BigOf(n) == <<n % Limb, (n \div Limb) % Limb, n \div (Limb * Limb)>>

\* the number whose limbs, before the carries, are cols, plus c
RECURSIVE Carry(_, _)
Carry(cols, c) ==
    IF cols = <<>>
    THEN IF c = 0 THEN <<>> ELSE <<c % Limb>> \o Carry(cols, c \div Limb)
    ELSE <<(Head(cols) + c) % Limb>>
             \o Carry(Tail(cols), (Head(cols) + c) \div Limb)

\* the sum of the a[i] * b[j] with i + j = k + 1, from i on
RECURSIVE ColSum(_, _, _, _)
ColSum(a, b, k, i) ==
    IF i > Len(a) THEN 0
    ELSE (IF k + 1 - i \in 1..Len(b) THEN a[i] * b[k + 1 - i] ELSE 0)
             + ColSum(a, b, k, i + 1)

BigMul(a, b) ==
    Carry([k \in 1..(Len(a) + Len(b)) |-> ColSum(a, b, k, 1)], 0)

\* one step of the division by a small d, from the most significant limb
DivLimb(hi, limb, d) ==
    [q |-> <<(hi.r * Limb + limb) \div d>> \o hi.q,
     r |-> (hi.r * Limb + limb) % d]

\* quotient and remainder of a by d, 0 < d < 2^18
RECURSIVE BigDiv(_, _)
BigDiv(a, d) ==
    IF a = <<>> THEN [q |-> <<>>, r |-> 0]
    ELSE DivLimb(BigDiv(Tail(a), d), Head(a), d)

RECURSIVE BigToNat(_)
BigToNat(a) == IF a = <<>> THEN 0 ELSE Head(a) + Limb * BigToNat(Tail(a))

RECURSIVE SmallBitLen(_)
SmallBitLen(n) == IF n = 0 THEN 0 ELSE 1 + SmallBitLen(n \div 2)

\* the number of bits of a
RECURSIVE BigBitLen(_)
BigBitLen(a) ==
    IF a = <<>> THEN 0
    ELSE IF a[Len(a)] = 0 THEN BigBitLen(SubSeq(a, 1, Len(a) - 1))
    ELSE 13 * (Len(a) - 1) + SmallBitLen(a[Len(a)])

\* a * 2^k
ShiftLeft(a, k) == [i \in 1..(k \div 13) |-> 0] \o BigMul(a, <<2 ^ (k % 13)>>)

\* what is left of a division by 2^k: d the division of the limbs kept by
\* the rest of the power, low the limbs dropped
ShiftParts(d, low) ==
    [q |-> d.q,
     exact |-> d.r = 0 /\ \A i \in 1..Len(low) : low[i] = 0]

\* a \div 2^k, and whether a is a multiple of 2^k
ShiftRight(a, k) ==
    IF k \div 13 >= Len(a)
    THEN ShiftParts([q |-> <<>>, r |-> 0], a)
    ELSE ShiftParts(BigDiv(SubSeq(a, (k \div 13) + 1, Len(a)), 2 ^ (k % 13)),
                    SubSeq(a, 1, k \div 13))

\* round-half-even: h.q is the number cut off, h.r the first bit cut, exact
\* tells that nothing else was cut
RoundHalfEven(h, exact) ==
    IF h.r = 1 /\ (~exact \/ (h.q # <<>> /\ h.q[1] % 2 = 1))
    THEN Carry(h.q, 1)
    ELSE h.q

RoundParts(s, inexact) == RoundHalfEven(BigDiv(s.q, 2), s.exact /\ ~inexact)

\* the integer nearest to (a + x) / 2^k, k > 0, where 0 < x < 1 if inexact
\* and x = 0 if not; a tie goes to the even one
RoundShift(a, k, inexact) == RoundParts(ShiftRight(a, k - 1), inexact)

FloatRoundAt(p, e, inexact, len) ==
    IF len <= 53 THEN [m |-> p, e |-> e]
    ELSE [m |-> RoundShift(p, len - 53, inexact), e |-> e + len - 53]

\* the double nearest to (p + x) * 2^e
FloatRound(p, e, inexact) == FloatRoundAt(p, e, inexact, BigBitLen(p))

\* float(n) of an int
FloatOfInt(n) == [m |-> BigOf(n), e |-> 0]

\* x * y
FloatMul(x, y) == FloatRound(BigMul(x.m, y.m), x.e + y.e, FALSE)

FloatOfQuotient(d) == FloatRound(d.q, -70, d.r # 0)

\* n / d of two ints, and the double of the decimal literal n/d:
\* 0 < d < 2^18
FloatDiv(n, d) == FloatOfQuotient(BigDiv(ShiftLeft(BigOf(n), 70), d))

\* VP_TO_USD_RATE = 1 / 110
VP_TO_USD_RATE == FloatDiv(1, VP_PER_USD)

\* the cents that "{:.2f}" shows for the double x
FloatCents(x) ==
    IF x.e >= 0 THEN BigToNat(ShiftLeft(BigMul(x.m, <<100>>), x.e))
    ELSE BigToNat(RoundShift(BigMul(x.m, <<100>>), -x.e, FALSE))

\* the cents of vp * VP_TO_USD_RATE * rate, cut off below the cent
TargetCentsTruncated(vp, rate, base) == (vp * rate) \div VP_PER_USD

\* the cents that "{:.2f}" shows for the double vp_amount * VP_TO_USD_RATE
\* * rate, the rate in hundredths (85 is the float 0.85)
FloatTargetCents(vp, rate) ==
    FloatCents(FloatMul(FloatMul(FloatOfInt(vp), VP_TO_USD_RATE),
                        FloatDiv(rate, 100)))

\* the exact product vp * rate / 110 lies half way between two cents
HalfWay(vp, rate) == 2 * ((vp * rate) % VP_PER_USD) = VP_PER_USD

\* the cents that "{:.2f}" shows for vp_amount * VP_TO_USD_RATE * rate, for
\* vp >= 0.  A product that does not lie half way lies 1/110 of a cent or
\* more from half way, and the double is nearer to it than that by a factor
\* of 2^30 at least, so the cent shown is the one nearest to the product;
\* half way, it is the cent of the double.  For the dollar the code does
\* not multiply by a rate, which is what the rate 100 gives.  base is the
\* base price read from CURRENCY_MAP, which the computation does not use.
TargetCents(vp, rate, base) ==
    IF HalfWay(vp, rate) THEN FloatTargetCents(vp, rate)
    ELSE (2 * vp * rate + VP_PER_USD) \div (2 * VP_PER_USD)

\* the cents that "{:.2f}" shows when vp_amount is the float of h
\* hundredths (2175 is the float 21.75), which a cache file with such a
\* price gives: the cent of the double
FloatAmountCents(h, rate) ==
    FloatCents(FloatMul(FloatMul(FloatDiv(h, 100), VP_TO_USD_RATE),
                        FloatDiv(rate, 100)))

\* the cents shown for the amount x, an int or a float
AmountCents(x, rate, base) ==
    IF x.t = "float" THEN FloatAmountCents(x.v, rate)
    ELSE TargetCents(x.v, rate, base)

\* what a conversion returns: text is the string, cents the amount it was
\* formatted from when there is one; rates the table the call obtained
Converted(format, cents) ==
    [error |-> FALSE, cents |-> Some(cents),
     text |-> CleanUp(format \o Format2f(cents))]

\* an error returned as the bare message
ErrorTextUntagged(reason) ==
    [error |-> TRUE, cents |-> None, text |-> <<reason>>]

\* f"Error: {str(e)}"
ErrorText(reason) ==
    [error |-> TRUE, cents |-> None,
     text |-> <<"E", "r", "r", "o", "r", ":", " ", reason>>]

\* the letters of a currency code
CodeText(code) ==
    CASE code = "USD" -> <<"U", "S", "D">> [] code = "AUD" -> <<"A", "U", "D">>
      [] code = "BRL" -> <<"B", "R", "L">> [] code = "CAD" -> <<"C", "A", "D">>
      [] code = "EUR" -> <<"E", "U", "R">> [] code = "INR" -> <<"I", "N", "R">>
      [] code = "MYR" -> <<"M", "Y", "R">> [] code = "MXN" -> <<"M", "X", "N">>
      [] code = "NZD" -> <<"N", "Z", "D">> [] code = "RUB" -> <<"R", "U", "B">>
      [] code = "SGD" -> <<"S", "G", "D">> [] code = "TRY" -> <<"T", "R", "Y">>
      [] code = "GBP" -> <<"G", "B", "P">>

\* `currency_code not in rates` and `usd_amount * rates[currency_code]` on
\* what get_exchange_rates returned: a table, or whatever else the cache
\* file held
ConvertWithRates(x, key, base, rates) ==
    IF rates.t = "dict"
    THEN IF GetCurrencyCode(key) \in DOMAIN rates.v
         THEN Converted(CURRENCY_MAP[key].format,
                        AmountCents(x, rates.v[GetCurrencyCode(key)], base))
         ELSE ErrorText("Exchange rate not available")
    ELSE IF rates.t = "str"
    THEN IF Contains(rates.v, CodeText(GetCurrencyCode(key)))
         THEN ErrorText("string indices must be integers, not 'str'")
         ELSE ErrorText("Exchange rate not available")
    ELSE ErrorText("argument is not iterable")

\* the conversion of a dollar amount, for which no rate is looked up
ConvertUsd(x, key, base) ==
    Converted(CURRENCY_MAP[key].format, AmountCents(x, 100, base))

(***************************************************************************)
(* Inputs of the model.                                                    *)
(***************************************************************************)

T_875 == <<"8", "7", "5">>

T_950VP == <<"9", "5", "0", " ", "V", "P">>

T_1275VP == <<"1", "2", "7", "5", " ", "V", "P">>

T_1c775 == <<"1", ",", "7", "7", "5">>

T_2175 == <<"2", "1", "7", "5">>

T_21p75 == <<"2", "1", ".", "7", "5">>

T_4350 == <<"4", "3", "5", "0">>

T_abc == <<"a", "b", "c">>

T_Name == <<"P", "r", "i", "m", "e">>

\* a header row that carries a marked number, to be skipped
HeaderRow == <<Cell(TRUE, T_4350)>>

FirstTable == <<HeaderRow, <<Cell(FALSE, T_Name), Cell(TRUE, T_4350)>>>>

PageNoTables == <<>>

PageOneTable == <<FirstTable>>

PageHeadersOnly == <<FirstTable, <<HeaderRow>>>>

PageUnmarkedOnly ==
    <<FirstTable,
      <<HeaderRow, <<Cell(FALSE, T_Name), Cell(FALSE, T_1275VP)>>>>>>

PageMixed ==
    <<FirstTable,
      <<HeaderRow,
        <<Cell(FALSE, T_Name), Cell(TRUE, T_1c775)>>,
        <<Cell(TRUE, T_abc)>>,
        <<Cell(FALSE, T_950VP)>>>>,
      <<HeaderRow, <<Cell(TRUE, T_875)>>>>,
      <<HeaderRow, <<Cell(TRUE, T_2175)>>>>>>

Pages ==
    {PageNoTables, PageOneTable, PageHeadersOnly, PageUnmarkedOnly, PageMixed}

Envs == [page : Pages, browserOk : BOOLEAN, httpOk : BOOLEAN]

\* responses of the live rate API
ApiOutcomes ==
    {[ok |-> FALSE, rates |-> <<>>],
     [ok |-> TRUE, rates |-> <<>>],
     [ok |-> TRUE,
      rates |-> [c \in {"USD", "EUR", "GBP"} |->
                    CASE c = "USD" -> 1 [] c = "EUR" -> 92 [] c = "GBP" -> 79]]}

\* what the catalog cache file may hold when the program starts
InitSkinFiles ==
    {Absent, Unreadable, Garbage, NonObject,
     JObject(Missing, String(IsoFormat(0))),
     JObject(Number(T_2175), Missing),
     JObject(Number(T_2175), String(T_abc)),
     JObject(Number(T_2175), Number(T_875)),
     JObject(String(T_abc), String(IsoFormat(0))),
     JObject(Null, String(IsoFormat(0))),
     JObject(Number(T_2175), String(IsoFormat(0)))}

\* what the rate cache file may hold when the program starts
T_xEURx == <<"x", "E", "U", "R", "x">>

\* the states of the rate cache file a run starts from
InitFxFiles ==
    {Absent, Unreadable, Garbage, NonObject,
     JObject(Missing, String(IsoFormat(0))),
     JObject(JsonDump(JDict(FallbackRates)), Missing),
     JObject(JsonDump(JDict(FallbackRates)), String(T_abc)),
     JObject(JsonDump(JDict(FallbackRates)), Number(T_875)),
     JObject(String(T_abc), String(IsoFormat(0))),
     JObject(String(T_xEURx), String(IsoFormat(0))),
     JObject(Null, String(IsoFormat(0))),
     JObject(JsonDump(JDict(FallbackRates)), String(IsoFormat(0))),
     JObject(JsonDump(JDict([c \in {"USD", "EUR"} |-> FallbackRates[c]])),
             String(IsoFormat(0)))}

T_7000 == <<"7", "0", "0", "0">>

T_500 == <<"5", "0", "0">>

T_0 == <<"0">>

T_neg50 == <<"-", "5", "0">>

T_12345 == <<"1", "2", "3", "4", "5">>

\* the cell texts the row extraction is run on
RowTexts ==
    {T_875, T_950VP, T_1c775, T_7000, T_500, T_0, T_neg50, T_12345, T_abc}

RowCells == {Cell(m, t) : m \in BOOLEAN, t \in RowTexts}

\* a row has at most MaxCells cells
MaxCells == 2

Rows == UNION {[1..n -> RowCells] : n \in 0..MaxCells}

T_1200 == <<"1", "2", "0", "0">>

\* a table whose data rows have a marked number, a marked text that is no
\* number, and an unmarked number
TableExample ==
    <<HeaderRow, <<Cell(TRUE, T_1200)>>, <<Cell(TRUE, T_abc)>>,
      <<Cell(FALSE, T_950VP)>>>>

\* unmarked cells before the one in range, an unmarked cell in range before
\* a marked one, and a row without a number
TableScan ==
    <<HeaderRow,
      <<Cell(FALSE, T_Name), Cell(FALSE, T_7000), Cell(FALSE, T_1275VP),
        Cell(FALSE, T_875)>>,
      <<Cell(FALSE, T_875), Cell(TRUE, T_2175)>>,
      <<Cell(FALSE, T_Name), Cell(FALSE, T_500)>>>>

\* marked numbers outside the range, one with a thousands comma, and a
\* marked text that is no number beside an unmarked number
TableSigns ==
    <<HeaderRow, <<Cell(TRUE, T_neg50)>>, <<Cell(TRUE, T_0)>>,
      <<Cell(TRUE, T_1c775)>>, <<Cell(TRUE, T_abc), Cell(FALSE, T_875)>>>>

TableHeaderOnly == <<HeaderRow>>

\* the tables a page is made of
SkinTables == {FirstTable, TableExample, TableScan, TableSigns, TableHeaderOnly}

\* a page has at most MaxTables tables matching the selector
MaxTables == 4

TablePages == UNION {[1..n -> SkinTables] : n \in 0..MaxTables}

\* the VP amounts a conversion is asked for
VpAmounts == {0, 22, 1000, 1100, 1155, 11000, 22000, 50000}

\* a key that CURRENCY_MAP does not have
UnknownKey == "Japanese Yen (¥)"

\* the keys a conversion is asked for
ConvertKeys == CurrencyKeys \cup {UnknownKey}

\* the base price CURRENCY_MAP gives the key, and another one the catalog
\* could give it
BasePrices(key) ==
    IF key \in CurrencyKeys
    THEN {CURRENCY_MAP[key].base, 2 * CURRENCY_MAP[key].base}
    ELSE {0}

\* the calls of convert_vp_to_currency: base is the base price that
\* CURRENCY_MAP holds for the key
ConvertCalls ==
    UNION {[vp : VpAmounts, key : {k}, base : BasePrices(k)] :
               k \in ConvertKeys}

SourceClasses == {"FandomWikiSource", "FandomWikiRequestsSource"}

\* a source list has at most MaxSources sources
MaxSources == 3

SourceLists == UNION {[1..n -> SourceClasses] : n \in 0..MaxSources}

\* the clock advances by TickHours up to MaxTime
TickHours == 3

MaxTime == 27

T_PrimeVandal ==
    <<"P", "r", "i", "m", "e", " ", "V", "a", "n", "d", "a", "l">>

T_Vandal == <<"V", "a", "n", "d", "a", "l">>

T_1775 == <<"1", "7", "7", "5">>

\* a skin row with its name, its weapon and its price
RowPrimeVandal ==
    <<Cell(FALSE, T_PrimeVandal), Cell(FALSE, T_Vandal), Cell(TRUE, T_1775)>>

\* rows of a skins table: a full row, a row of one cell, a dash for the
\* weapon, a dash for the name, "Unknown" for the name, a price that is no
\* number, and a price of 0
VerifyRows ==
    {RowPrimeVandal,
     <<Cell(TRUE, T_1200)>>,
     <<Cell(FALSE, T_Name), Cell(FALSE, <<"â", "€", "U+201D">>),
       Cell(TRUE, T_2175)>>,
     <<Cell(FALSE, <<"-">>), Cell(FALSE, T_Vandal), Cell(TRUE, T_875)>>,
     <<Cell(FALSE, UnknownText), Cell(FALSE, T_Vandal), Cell(TRUE, T_950VP)>>,
     <<Cell(FALSE, T_Name), Cell(TRUE, T_abc)>>,
     <<Cell(FALSE, T_Name), Cell(TRUE, T_0)>>}

\* the second table has at most MaxRows data rows
MaxRows == 2

SecondTables ==
    {<<HeaderRow>> \o rows :
        rows \in UNION {[1..n -> VerifyRows] : n \in 0..MaxRows}}

ThirdTables == {<<HeaderRow>>} \cup {<<HeaderRow, row>> : row \in VerifyRows}

\* the keywords of the two chains, those of the edition first, each list
\* in the order of its chain
Keywords ==
    <<<<"u", "l", "t", "r", "a">>,
      <<"e", "x", "c", "l", "u", "s", "i", "v", "e">>,
      <<"p", "r", "e", "m", "i", "u", "m">>,
      <<"d", "e", "l", "u", "x", "e">>,
      <<"s", "e", "l", "e", "c", "t">>,
      <<"b", "a", "t", "t", "l", "e", " ", "p", "a", "s", "s">>,
      <<"b", "a", "t", "t", "l", "e", "p", "a", "s", "s">>,
      <<"a", "g", "e", "n", "t", " ", "g", "e", "a", "r">>,
      <<"s", "t", "o", "r", "e">>,
      <<"n", "i", "g", "h", "t", " ", "m", "a", "r", "k", "e", "t">>>>

UpperOf(c) ==
    IF \E k \in 1..26 : LowerChars[k] = c
    THEN UpperChars[CHOOSE k \in 1..26 : LowerChars[k] = c]
    ELSE c

\* a keyword as written in a cell: in small letters, with a capital first
\* letter, or in capitals
Cased(kw, case) ==
    IF case = "lower" THEN kw
    ELSE IF case = "Capital" THEN <<UpperOf(kw[1])>> \o Tail(kw)
    ELSE [i \in 1..Len(kw) |-> UpperOf(kw[i])]

Cases == {"lower", "Capital", "UPPER"}

\* the keywords of these indices, one after the other
RECURSIVE KeywordText(_, _)
KeywordText(indices, case) ==
    IF indices = <<>> THEN <<>>
    ELSE <<" ">> \o Cased(Keywords[Head(indices)], case)
             \o KeywordText(Tail(indices), case)

\* a priced row whose first cell names the keywords of the set, in the
\* order of the chains or against it
KeywordRow(set, forward, case) ==
    <<Cell(FALSE,
           T_Name \o KeywordText(
               SelectSeq(IF forward THEN <<1, 2, 3, 4, 5, 6, 7, 8, 9, 10>>
                         ELSE <<10, 9, 8, 7, 6, 5, 4, 3, 2, 1>>,
                         LAMBDA k : k \in set), case)),
      Cell(TRUE, T_1775)>>

KeywordRows ==
    {KeywordRow(set, forward, case) :
        set \in SUBSET (1..10), forward \in BOOLEAN, case \in Cases}

\* scrape_with_retry is called with max_retries of at most MaxRetries
MaxRetries == 4

\* what one attempt meets: the page the browser would show, and whether the
\* browser gets there (clear_cookies, goto and wait_for_selector pass)
AttemptEnvs == [page : Pages, browserOk : BOOLEAN]

\* the totals two processes may have fetched
WriterTotals == {875, 2175, 4350, 12345}

\* an analysis has at most MaxSkins records
MaxSkins == 500

\* the analyses a report is rendered from
Analyses ==
    [has_error : BOOLEAN, total_skins : 0..MaxSkins, missing : BOOLEAN,
     duplicates : BOOLEAN]

\* pages with the skins tables in second and third place
VerifyPages ==
    {<<FirstTable, t2>> : t2 \in SecondTables}
        \cup {<<FirstTable, t2, t3>> : t2 \in SecondTables, t3 \in ThirdTables}


(***************************************************************************)
(* State.                                                                  *)
(***************************************************************************)

VARIABLES
    client,       \* the object a run drives: "fetcher", "converter" or
                  \* "calculator"
    playwright,   \* PLAYWRIGHT_AVAILABLE
    sources,      \* DataSourceManager.sources, by class name
    now,          \* datetime.now(), in hours
    skinFile,     \* cache/skin_prices.json
    fxFile,       \* cache/exchange_rates.json
    lastOp,       \* the last operation and what it gave
    skinWritten,  \* the last value _cache_prices stored that is still on disk
    fxWritten,    \* the last value _cache_rates stored that is still on disk
    input,        \* the argument of the call: a row, a page, a conversion
    amount,       \* SkinPriceCalculator.amount
    retry,        \* a call of scrape_with_retry: where it is, what it did
    writers,      \* processes writing one cache file, and the bytes on disk
    browser       \* a call of a sync wrapper of PlaywrightScraper: where it
                  \* is, what it started and what it released

vars ==
    <<client, playwright, sources, now, skinFile, fxFile, lastOp, skinWritten,
      fxWritten, input, amount, retry, writers, browser>>

\* no PlaywrightScraper in use
NoBrowser ==
    [pc |-> "idle", call |-> "none", step |-> 0, started |-> {},
     released |-> {},
     result |-> [raised |-> FALSE, error |-> "none", prices |-> <<>>]]

\* no call of scrape_with_retry under way
NoRetry ==
    [pc |-> "idle", max |-> 0, attempt |-> 0, step |-> 0, trace |-> <<>>,
     prices |-> <<>>, error |-> "none"]

\* no process writing, and no file
NoWriters == [exists |-> FALSE, disk |-> <<>>, procs |-> <<>>]

\* cache_data of _cache_prices
PriceEntry(price, clock) ==
    JObject(JsonDump(JInt(price)), String(IsoFormat(clock)))

\* the characters json.dump writes for cache_data
EntryText(entry) ==
    <<"{", "\"", "p", "r", "i", "c", "e", "\"", ":", " ">> \o entry.value.v
        \o <<",", " ", "\"", "t", "i", "m", "e", "s", "t", "a", "m", "p",
             "\"", ":", " ", "\"">>
        \o entry.timestamp.v \o <<"\"", "}">>

\* a process that is to write the entry: pc is "start", then "opened" once
\* open(cache_file, 'w') has returned, then "closed"; "open_error" or
\* "write_error" once the open or the write has raised, which the except of
\* _cache_prices logs
Writer(entry) == [pc |-> "start", entry |-> entry]

NoOp ==
    [op |-> "none", raised |-> FALSE, cached |-> Miss, invoked |-> <<>>,
     outcomes |-> <<>>, prices |-> <<>>, value |-> JNull, io |-> "none",
     price |-> None]

NotWritten == [some |-> FALSE, val |-> JNull, at |-> 0]

Written(x, t) == [some |-> TRUE, val |-> x, at |-> t]

\* what is left of the record of the last value stored after a refresh
WrittenAfterClear(file, io, written) ==
    IF CacheClear(file, io) = Absent THEN NotWritten ELSE written

\* The price fetcher (with the data source manager it holds) and the
\* currency converter are independent objects: they share no state but the
\* clock.  A run drives one of them.
Clients == {"fetcher", "converter"}

Init ==
    /\ client \in Clients
    /\ playwright \in BOOLEAN
    /\ sources = ManagerSources(playwright)
    /\ now = 0
    /\ skinFile \in (IF client = "fetcher" THEN InitSkinFiles ELSE {Absent})
    /\ fxFile \in (IF client = "converter" THEN InitFxFiles ELSE {Absent})
    /\ lastOp = NoOp
    /\ skinWritten = NotWritten
    /\ fxWritten = NotWritten
    /\ input = <<>>
    /\ amount = JInt(0)
    /\ retry = NoRetry
    /\ browser = NoBrowser
    /\ writers = NoWriters

\* a manager whose source list is any list of the two source classes
InitSources ==
    /\ client = "fetcher"
    /\ playwright \in BOOLEAN
    /\ sources \in SourceLists
    /\ now = 0
    /\ skinFile = Absent
    /\ fxFile = Absent
    /\ lastOp = NoOp
    /\ skinWritten = NotWritten
    /\ fxWritten = NotWritten
    /\ input = <<>>
    /\ amount = JInt(0)
    /\ retry = NoRetry
    /\ browser = NoBrowser
    /\ writers = NoWriters

\* a row of the page, before _extract_price_from_row is called on it
InitRows ==
    /\ client = "fetcher"
    /\ playwright \in BOOLEAN
    /\ sources = ManagerSources(playwright)
    /\ now = 0
    /\ skinFile = Absent
    /\ fxFile = Absent
    /\ lastOp = NoOp
    /\ skinWritten = NotWritten
    /\ fxWritten = NotWritten
    /\ input \in Rows
    /\ amount = JInt(0)
    /\ retry = NoRetry
    /\ browser = NoBrowser
    /\ writers = NoWriters

\* the extraction run on any page
InitPages ==
    /\ client = "fetcher"
    /\ playwright \in BOOLEAN
    /\ sources = ManagerSources(playwright)
    /\ now = 0
    /\ skinFile = Absent
    /\ fxFile = Absent
    /\ lastOp = NoOp
    /\ skinWritten = NotWritten
    /\ fxWritten = NotWritten
    /\ input \in TablePages
    /\ amount = JInt(0)
    /\ retry = NoRetry
    /\ browser = NoBrowser
    /\ writers = NoWriters

\* the report rendered from any analysis
InitReport ==
    /\ client = "fetcher"
    /\ playwright = FALSE
    /\ sources = ManagerSources(playwright)
    /\ now = 0
    /\ skinFile = Absent
    /\ fxFile = Absent
    /\ lastOp = NoOp
    /\ skinWritten = NotWritten
    /\ fxWritten = NotWritten
    /\ input \in Analyses
    /\ amount = JInt(0)
    /\ retry = NoRetry
    /\ browser = NoBrowser
    /\ writers = NoWriters

\* the record of any row of keywords
InitKeywords ==
    /\ client = "fetcher"
    /\ playwright = FALSE
    /\ sources = ManagerSources(playwright)
    /\ now = 0
    /\ skinFile = Absent
    /\ fxFile = Absent
    /\ lastOp = NoOp
    /\ skinWritten = NotWritten
    /\ fxWritten = NotWritten
    /\ input \in KeywordRows
    /\ amount = JInt(0)
    /\ retry = NoRetry
    /\ browser = NoBrowser
    /\ writers = NoWriters

\* a scraper before a call of scrape_with_retry
InitRetry ==
    /\ client = "fetcher"
    /\ playwright = TRUE
    /\ sources = ManagerSources(playwright)
    /\ now = 0
    /\ skinFile = Absent
    /\ fxFile = Absent
    /\ lastOp = NoOp
    /\ skinWritten = NotWritten
    /\ fxWritten = NotWritten
    /\ input = <<>>
    /\ amount = JInt(0)
    /\ retry = NoRetry
    /\ browser = NoBrowser
    /\ writers = NoWriters

\* what the price cache file may hold when a calculator is made
CalculatorSkinFiles ==
    {Absent, Garbage,
     JObject(String(T_abc), String(IsoFormat(0))),
     JObject(Null, String(IsoFormat(0))),
     JObject(Number(T_2175), String(IsoFormat(0))),
     JObject(Number(T_21p75), String(IsoFormat(0)))}

\* SkinPriceCalculator.__init__ up to its call of _load_prices
InitCalculator ==
    /\ client = "calculator"
    /\ playwright = FALSE
    /\ sources = ManagerSources(playwright)
    /\ now = 0
    /\ skinFile \in CalculatorSkinFiles
    /\ fxFile \in {Absent,
                   JObject(JsonDump(JDict(FallbackRates)),
                           String(IsoFormat(0)))}
    /\ lastOp = NoOp
    /\ skinWritten = NotWritten
    /\ fxWritten = NotWritten
    /\ input = <<>>
    /\ amount = JInt(0)
    /\ retry = NoRetry
    /\ browser = NoBrowser
    /\ writers = NoWriters

\* two processes in get_price, each with the total it fetched, about to
\* write the same cache file, which is not there or holds an entry
InitWriters ==
    /\ client = "fetcher"
    /\ playwright = FALSE
    /\ sources = ManagerSources(playwright)
    /\ now = 0
    /\ skinFile = Absent
    /\ fxFile = Absent
    /\ lastOp = NoOp
    /\ skinWritten = NotWritten
    /\ fxWritten = NotWritten
    /\ input = <<>>
    /\ amount = JInt(0)
    /\ retry = NoRetry
    /\ browser = NoBrowser
    /\ \E t0, t1, t2 \in WriterTotals, old \in BOOLEAN :
           writers = [exists |-> old,
                      disk |-> IF old
                               THEN EntryText(PriceEntry(t0, now))
                               ELSE <<>>,
                      procs |-> <<Writer(PriceEntry(t1, now)),
                                  Writer(PriceEntry(t2, now))>>]

\* the verifier run on a page of skin rows
InitVerify ==
    /\ client = "fetcher"
    /\ playwright = FALSE
    /\ sources = ManagerSources(playwright)
    /\ now = 0
    /\ skinFile = Absent
    /\ fxFile = Absent
    /\ lastOp = NoOp
    /\ skinWritten = NotWritten
    /\ fxWritten = NotWritten
    /\ input \in VerifyPages
    /\ amount = JInt(0)
    /\ retry = NoRetry
    /\ browser = NoBrowser
    /\ writers = NoWriters

\* a converter asked for any conversion, over any rate cache file, the
\* clock at the stamp of the file or a day later
InitConvert ==
    /\ client = "converter"
    /\ playwright = FALSE
    /\ sources = ManagerSources(playwright)
    /\ now \in {0, MaxTime}
    /\ skinFile = Absent
    /\ fxFile \in InitFxFiles
    /\ lastOp = NoOp
    /\ skinWritten = NotWritten
    /\ fxWritten = NotWritten
    /\ input \in ConvertCalls
    /\ amount = JInt(0)
    /\ retry = NoRetry
    /\ browser = NoBrowser
    /\ writers = NoWriters

(***************************************************************************)
(* Operations.                                                             *)
(***************************************************************************)

\* DataSourceManager.get_prices, m being what the loop gave
GetPricesResult(m) ==
    /\ lastOp' = [NoOp EXCEPT !.op = "get_prices", !.raised = m.raised,
                              !.invoked = m.invoked, !.outcomes = m.outcomes,
                              !.prices = m.prices]
    /\ UNCHANGED <<client, browser, playwright, sources, now, skinFile, fxFile,
                   skinWritten, fxWritten, input, retry, writers, amount>>

GetPrices ==
    /\ client = "fetcher"
    /\ \E env \in Envs :
           GetPricesResult(GetPricesFrom(sources, playwright, env))

\* DataSourceManager.get_total_price: sum(self.get_prices())
GetTotalPriceResult(m) ==
    /\ lastOp' = [NoOp EXCEPT !.op = "get_total_price", !.raised = m.raised,
                              !.invoked = m.invoked, !.outcomes = m.outcomes,
                              !.value = IF m.raised THEN JNull
                                        ELSE JInt(Sum(m.prices))]
    /\ UNCHANGED <<client, browser, playwright, sources, now, skinFile, fxFile,
                   skinWritten, fxWritten, input, retry, writers, amount>>

GetTotalPrice ==
    /\ client = "fetcher"
    /\ \E env \in Envs :
           GetTotalPriceResult(GetPricesFrom(sources, playwright, env))

\* SkinPriceFetcher.get_price, the call served from the cache
GetPriceHit(c) ==
    /\ c.hit
    /\ lastOp' = [NoOp EXCEPT !.op = "get_price", !.cached = c,
                              !.value = c.val]
    /\ UNCHANGED <<client, browser, playwright, sources, now, skinFile, fxFile,
                   skinWritten, fxWritten, input, retry, writers>>

\* a write failure that reaches the caller
GetPriceStoreStrict(m, total, io) ==
    /\ lastOp' = [NoOp EXCEPT !.op = "get_price", !.invoked = m.invoked,
                              !.outcomes = m.outcomes, !.io = io,
                              !.raised = (io # "ok"),
                              !.value = IF io = "ok" THEN JInt(total)
                                        ELSE JNull]
    /\ skinFile' = CachePrices(skinFile, total, now, io)
    /\ skinWritten' = IF io = "ok" THEN Written(JInt(total), now)
                      ELSE IF io = "open_error" THEN skinWritten
                      ELSE NotWritten

\* _cache_prices(price) and `return price`: total is the fetched total, io
\* how the write ends
GetPriceStore(m, total, io) ==
    /\ lastOp' = [NoOp EXCEPT !.op = "get_price", !.invoked = m.invoked,
                              !.outcomes = m.outcomes,
                              !.value = JInt(total), !.io = io]
    /\ skinFile' = CachePrices(skinFile, total, now, io)
    /\ skinWritten' = IF io = "ok" THEN Written(JInt(total), now)
                      ELSE IF io = "open_error" THEN skinWritten
                      ELSE NotWritten

\* a miss that falls back on the value of the file when the fetch fails
GetPriceMissServingStale(c, m, io) ==
    /\ ~c.hit
    /\ IF m.raised
       THEN /\ lastOp' = [NoOp EXCEPT !.op = "get_price",
                                      !.raised = (skinFile.value.t # "number"),
                                      !.invoked = m.invoked,
                                      !.outcomes = m.outcomes,
                                      !.value = IF skinFile.value.t = "number"
                                                THEN JsonLoad(skinFile.value)
                                                ELSE JNull]
            /\ UNCHANGED <<skinFile, skinWritten>>
       ELSE GetPriceStore(m, Sum(m.prices), io)
    /\ UNCHANGED <<client, browser, playwright, sources, now, fxFile,
                   fxWritten, input, retry, writers>>

\* a miss that removes the entry it could not use when the fetch fails
GetPriceMissEvicting(c, m, io) ==
    /\ ~c.hit
    /\ IF m.raised
       THEN /\ lastOp' = [NoOp EXCEPT !.op = "get_price", !.raised = TRUE,
                                      !.invoked = m.invoked,
                                      !.outcomes = m.outcomes]
            /\ skinFile' = Absent
            /\ skinWritten' = NotWritten
       ELSE GetPriceStore(m, Sum(m.prices), io)
    /\ UNCHANGED <<client, browser, playwright, sources, now, fxFile,
                   fxWritten, input, retry, writers>>

\* SkinPriceFetcher.get_price, the call that misses the cache: fetch
\* (_fetch_from_multiple_sources calls get_total_price), write, return.
\* m is what the manager's loop gave.
GetPriceMiss(c, m, io) ==
    /\ ~c.hit
    /\ IF m.raised
       THEN /\ lastOp' = [NoOp EXCEPT !.op = "get_price", !.raised = TRUE,
                                      !.invoked = m.invoked,
                                      !.outcomes = m.outcomes]
            /\ UNCHANGED <<skinFile, skinWritten>>
       ELSE GetPriceStore(m, Sum(m.prices), io)
    /\ UNCHANGED <<client, browser, playwright, sources, now, fxFile,
                   fxWritten, input, retry, writers>>

\* SkinPriceFetcher.get_price
GetPrice ==
    /\ client = "fetcher"
    /\ amount' = amount
    /\ \/ GetPriceHit(GetCachedPrices(skinFile, now))
       \/ \E env \in Envs, io \in IOOutcomes :
              GetPriceMiss(GetCachedPrices(skinFile, now),
                           GetPricesFrom(sources, playwright, env), io)

\* SkinPriceFetcher.refresh_cache
RefreshCache ==
    /\ client = "fetcher"
    /\ \E io \in UnlinkOutcomes :
           /\ skinFile' = RefreshCacheFile(skinFile, io)
           /\ skinWritten' = WrittenAfterClear(skinFile, io, skinWritten)
           /\ lastOp' = [NoOp EXCEPT !.op = "refresh_cache",
                                     !.io = Unlinked(skinFile, io)]
    /\ UNCHANGED <<client, browser, playwright, sources, now, fxFile,
                   fxWritten, input, retry, writers, amount>>

\* CurrencyConverter.get_exchange_rates, the call served from the cache
GetExchangeRatesHit(c) ==
    /\ c.hit
    /\ lastOp' = [NoOp EXCEPT !.op = "get_exchange_rates", !.cached = c,
                              !.value = c.val]
    /\ UNCHANGED <<client, browser, playwright, sources, now, skinFile, fxFile,
                   skinWritten, fxWritten, input, retry, writers, amount>>

\* CurrencyConverter.get_exchange_rates, the call that misses the cache:
\* _fetch_exchange_rates, write, return.  r is what the stages gave, io
\* how the write ends.
GetExchangeRatesMiss(c, r, io) ==
    /\ ~c.hit
    /\ IF r.raised
       THEN /\ lastOp' = [NoOp EXCEPT !.op = "get_exchange_rates",
                                      !.raised = TRUE, !.invoked = r.stages,
                                      !.outcomes = <<r>>]
            /\ UNCHANGED <<fxFile, fxWritten>>
       ELSE /\ lastOp' = [NoOp EXCEPT !.op = "get_exchange_rates",
                                      !.invoked = r.stages,
                                      !.outcomes = <<r>>,
                                      !.value = JDict(r.rates), !.io = io]
            /\ fxFile' = CacheRates(fxFile, r.rates, now, io)
            /\ fxWritten' = IF io = "ok" THEN Written(JDict(r.rates), now)
                            ELSE IF io = "open_error" THEN fxWritten
                            ELSE NotWritten
    /\ UNCHANGED <<client, browser, playwright, sources, now, skinFile,
                   skinWritten, input, retry, writers, amount>>

\* CurrencyConverter.get_exchange_rates
GetExchangeRates ==
    /\ client = "converter"
    /\ \/ GetExchangeRatesHit(GetCachedRates(fxFile, now))
       \/ \E api \in ApiOutcomes, io \in IOOutcomes :
              GetExchangeRatesMiss(GetCachedRates(fxFile, now),
                                   FetchExchangeRates(api), io)

\* CurrencyConverter.refresh_rates
RefreshRates ==
    /\ client = "converter"
    /\ \E io \in UnlinkOutcomes :
           /\ fxFile' = RefreshRatesFile(fxFile, io)
           /\ fxWritten' = WrittenAfterClear(fxFile, io, fxWritten)
           /\ lastOp' = [NoOp EXCEPT !.op = "refresh_rates",
                                     !.io = Unlinked(fxFile, io)]
    /\ UNCHANGED <<client, browser, playwright, sources, now, skinFile,
                   skinWritten, input, retry, writers, amount>>

\* PlaywrightScraper._extract_price_from_row on the row
ScraperExtractRow ==
    /\ lastOp' = [NoOp EXCEPT !.op = "scraper_row",
                              !.price = ScraperPriceFromRow(input)]
    /\ UNCHANGED <<client, browser, playwright, sources, now, skinFile, fxFile,
                   skinWritten, fxWritten, input, retry, writers, amount>>

\* SkinVerifier._extract_price_from_row on the row
VerifierExtractRow ==
    /\ lastOp' = [NoOp EXCEPT !.op = "verifier_row",
                              !.price = VerifierPriceFromRow(input)]
    /\ UNCHANGED <<client, browser, playwright, sources, now, skinFile, fxFile,
                   skinWritten, fxWritten, input, retry, writers, amount>>

\* an extraction that ended as r
Extracted(name, r) ==
    /\ lastOp' = [NoOp EXCEPT !.op = name, !.raised = r.raised,
                              !.prices = r.prices]
    /\ UNCHANGED <<client, browser, playwright, sources, now, skinFile, fxFile,
                   skinWritten, fxWritten, input, retry, writers, amount>>

\* PlaywrightScraper._extract_prices_from_soup on the page
ScraperExtract == Extracted("scraper_extract", ExtractPricesFromSoup(input))

\* FandomWikiRequestsSource._extract_prices on the page
RequestsExtract == Extracted("requests_extract", RequestsExtractPrices(input))

\* FandomWikiSource._extract_prices on the page
WikiExtract == Extracted("wiki_extract", WikiExtractPrices(input))

\* an analysis that ended as r
Analyzed(r) ==
    /\ lastOp' = [NoOp EXCEPT !.op = "verifier_analyze",
                              !.value = IF r.error = "" THEN JNull
                                        ELSE JStr(<<r.error>>),
                              !.prices = r.prices, !.outcomes = <<r>>]
    /\ UNCHANGED <<client, browser, playwright, sources, now, skinFile, fxFile,
                   skinWritten, fxWritten, input, retry, writers, amount>>

\* SkinVerifier._analyze_skins_table on the page
VerifierAnalyze == Analyzed(AnalyzeSkinsTable(input))

\* SkinVerifier._extract_skin_info on the row, as row 0 of a table: the
\* record, or None
VerifierExtractInfo ==
    /\ lastOp' = [NoOp EXCEPT !.op = "verifier_extract_info",
                              !.outcomes = SkinRecord(input, 0,
                                               VerifierPriceFromRow(input))]
    /\ UNCHANGED <<client, browser, playwright, sources, now, skinFile, fxFile,
                   skinWritten, fxWritten, input, retry, writers, amount>>

\* write(2) of the text at offset 0: the bytes beyond the text stay
WriteAtStart(disk, text) ==
    text \o (IF Len(disk) > Len(text)
             THEN SubSeq(disk, Len(text) + 1, Len(disk))
             ELSE <<>>)

\* a step of a writer leaves everything else as it is
WriterFrame ==
    UNCHANGED <<client, browser, playwright, sources, now, skinFile, fxFile,
                lastOp, skinWritten, fxWritten, input, retry, amount>>

\* open(self.cache_file, 'w') in process p: the file is there and empty,
\* and the process holds a file object at offset 0; or the open raises, and
\* the file is as it was, with nothing more done by the process
WriterOpen(p) ==
    /\ writers.procs[p].pc = "start"
    /\ \E io \in {"ok", "open_error"} :
           writers' = IF io = "ok"
                      THEN [writers EXCEPT !.exists = TRUE, !.disk = <<>>,
                                           !.procs[p].pc = "opened"]
                      ELSE [writers EXCEPT !.procs[p].pc = "open_error"]
    /\ WriterFrame

\* the end of the with block in process p: json.dump has filled the buffer
\* of the file object, and close() writes it at the offset of the process;
\* a write that fails after n characters leaves those n in the file
WriterClose(p) ==
    /\ writers.procs[p].pc = "opened"
    /\ \E n \in 0..Len(EntryText(writers.procs[p].entry)) :
           writers' = [writers EXCEPT
               !.disk = WriteAtStart(@,
                            SubSeq(EntryText(writers.procs[p].entry), 1, n)),
               !.procs[p].pc =
                   IF n = Len(EntryText(writers.procs[p].entry))
                   THEN "closed" ELSE "write_error"]
    /\ WriterFrame

\* the first position from i on that holds no space
RECURSIVE SkipSpace(_, _)
SkipSpace(s, i) ==
    IF i <= Len(s) /\ s[i] = " " THEN SkipSpace(s, i + 1) ELSE i

\* the first position from i on that holds no digit
RECURSIVE DigitsEnd(_, _)
DigitsEnd(s, i) ==
    IF i <= Len(s) /\ IsDigit(s[i]) THEN DigitsEnd(s, i + 1) ELSE i

\* the first position from i on that holds a quote, 0 if none
RECURSIVE QuoteAt(_, _)
QuoteAt(s, i) ==
    IF i > Len(s) THEN 0
    ELSE IF s[i] = "\"" THEN i
    ELSE QuoteAt(s, i + 1)

\* character c is at position i
CharAt(s, i, c) == i >= 1 /\ i <= Len(s) /\ s[i] = c

\* `"key": ` from position i on: the key and the position of the value,
\* at = 0 if the text is none
KeyAt(s, i) ==
    LET q == IF CharAt(s, i, "\"") THEN QuoteAt(s, i + 1) ELSE 0
        c == SkipSpace(s, q + 1)
    IN  IF q # 0 /\ CharAt(s, c, ":")
        THEN [at |-> SkipSpace(s, c + 1), key |-> SubSeq(s, i + 1, q - 1)]
        ELSE [at |-> 0, key |-> <<>>]

\* an integer from position i on: its text and the position after it and
\* the spaces that follow, at = 0 if the text is none
NumberAt(s, i) ==
    LET e == DigitsEnd(s, i)
    IN  IF i >= 1 /\ e > i /\ (s[i] = "0" => e = i + 1)
        THEN [at |-> SkipSpace(s, e), val |-> Number(SubSeq(s, i, e - 1))]
        ELSE [at |-> 0, val |-> Missing]

\* a string from position i on: likewise
StringAt(s, i) ==
    LET q == IF CharAt(s, i, "\"") THEN QuoteAt(s, i + 1) ELSE 0
    IN  IF q # 0
        THEN [at |-> SkipSpace(s, q + 1),
              val |-> String(SubSeq(s, i + 1, q - 1))]
        ELSE [at |-> 0, val |-> Missing]

\* cache_data[key] of the object with these two members: the last of the
\* members under the key, if any
Member(key, k1, v1, k2, v2) ==
    IF k2.key = key THEN v2.val
    ELSE IF k1.key = key THEN v1.val
    ELSE Missing

\* the object `{k1: v1, k2: v2}`, if the text ends with it
ObjectOf(s, k1, v1, k2, v2) ==
    IF /\ k1.at # 0 /\ v1.at # 0 /\ k2.at # 0 /\ v2.at # 0
       /\ CharAt(s, v2.at, "}")
       /\ SkipSpace(s, v2.at + 1) = Len(s) + 1
    THEN JObject(Member(<<"p", "r", "i", "c", "e">>, k1, v1, k2, v2),
                 Member(<<"t", "i", "m", "e", "s", "t", "a", "m", "p">>,
                        k1, v1, k2, v2))
    ELSE Garbage

\* the second member, after the comma that ends the first
SecondMember(s, k1, v1, k2) ==
    ObjectOf(s, k1, v1, k2, StringAt(s, k2.at))

\* the members of the object, the first of them read
Members(s, k1, v1) ==
    IF v1.at # 0 /\ CharAt(s, v1.at, ",")
    THEN SecondMember(s, k1, v1, KeyAt(s, SkipSpace(s, v1.at + 1)))
    ELSE Garbage

\* the object that starts with this key
FirstMember(s, k1) == Members(s, k1, NumberAt(s, k1.at))

\* json.load of the characters of the file: the object they spell, one of
\* an integer member followed by a string member (the characters in the
\* file are those of such objects, whole or in part; they hold no escape
\* and no white space but the space); anything else raises
ParseDisk(disk) ==
    IF CharAt(disk, SkipSpace(disk, 1), "{")
    THEN FirstMember(disk, KeyAt(disk, SkipSpace(disk,
                                           SkipSpace(disk, 1) + 1)))
    ELSE Garbage

\* the file the reader finds
WritersFile ==
    IF writers.exists THEN ParseDisk(writers.disk) ELSE Absent

\* _get_cached_prices in a process that comes after the two writers
WritersRead ==
    /\ writers.procs # <<>>
    /\ \A p \in 1..Len(writers.procs) :
           writers.procs[p].pc \in {"closed", "open_error", "write_error"}
    /\ lastOp.op = "none"
    /\ lastOp' = [NoOp EXCEPT !.op = "get_cached_prices",
                              !.cached = GetCachedPrices(WritersFile, now)]
    /\ skinFile' = WritersFile
    /\ UNCHANGED <<client, browser, playwright, sources, now, fxFile,
                   skinWritten, fxWritten, input, retry, amount, writers>>

\* a loop that makes one attempt more than asked
AttemptsLeftInclusive(attempt, max) == attempt <= max

\* `for attempt in range(max_retries)`: there is an attempt of this number
AttemptsLeft(attempt, max) == attempt < max

\* the body of the try block of one attempt: the exception it raises, or
\* the prices it extracts
AttemptOutcome(env) ==
    IF ~env.browserOk
    THEN [raised |-> TRUE, error |-> "TimeoutError", prices |-> <<>>]
    ELSE IF ExtractPricesFromSoup(env.page).raised
    THEN [raised |-> TRUE, error |-> "Could not find weapon skins table",
          prices |-> <<>>]
    ELSE [raised |-> FALSE, error |-> "none",
          prices |-> ExtractPricesFromSoup(env.page).prices]

\* `if prices and len(prices) > 0`
FoundPrices(r) == ~r.raised /\ r.prices # <<>>

\* what the call has done so far is kept as a list of events: the attempts
\* with their number and how they ended, and the sleeps with their length
AttemptEvent(n, result, error, prices) ==
    [kind |-> "attempt", n |-> n, result |-> result, error |-> error,
     prices |-> prices, delay |-> 0]

SleepEvent(n, delay) ==
    [kind |-> "sleep", n |-> n, result |-> "none", error |-> "none",
     prices |-> <<>>, delay |-> delay]

\* `2 ** attempt`
Backoff(attempt) == 2 ^ attempt

\* the awaits of one attempt of scrape_with_retry, in order; the parse
\* follows the last one without an await
AttemptAwaits == <<"clear_cookies", "goto", "wait_for_selector", "content">>

\* the awaits of scrape_fandom_wiki, in order
ScrapeAwaits == <<"goto", "wait_for_selector", "content">>

\* the loop is at its head with this attempt number: the next attempt, at
\* its first await, or the raise after the loop
LoopHead(r, attempt) ==
    IF AttemptsLeft(attempt, r.max)
    THEN [r EXCEPT !.pc = "attempt", !.attempt = attempt, !.step = 1]
    ELSE [r EXCEPT !.pc = "raised", !.attempt = attempt, !.step = 0,
                   !.error = "All scraping attempts failed"]

\* the call has ended: what the caller gets
RetryEnds(r) ==
    IF r.pc \in {"returned", "raised"}
    THEN lastOp' = [NoOp EXCEPT !.op = "scrape_with_retry",
                                !.raised = (r.pc = "raised"),
                                !.prices = r.prices]
    ELSE lastOp' = lastOp

\* the call moves on to r
RetryStep(r) ==
    /\ retry' = r
    /\ RetryEnds(r)
    /\ UNCHANGED <<client, browser, playwright, sources, now, skinFile, fxFile,
                   skinWritten, fxWritten, input, writers, amount>>

\* PlaywrightScraper.scrape_with_retry is called
RetryCall ==
    /\ retry.pc = "idle"
    /\ \E max \in 0..MaxRetries :
           RetryStep(LoopHead([NoRetry EXCEPT !.max = max], 0))

\* the attempt ended as res
Attempted(res) ==
    IF FoundPrices(res)
    THEN RetryStep([retry EXCEPT
             !.pc = "returned", !.prices = res.prices, !.step = 0,
             !.trace = @ \o <<AttemptEvent(retry.attempt, "prices", "none",
                                           res.prices)>>])
    ELSE IF ~res.raised
    THEN RetryStep(LoopHead([retry EXCEPT
             !.trace = @ \o <<AttemptEvent(retry.attempt, "empty", "none",
                                           <<>>)>>],
             retry.attempt + 1))
    ELSE IF retry.attempt = retry.max - 1
    THEN RetryStep([retry EXCEPT
             !.pc = "raised", !.error = res.error, !.step = 0,
             !.trace = @ \o <<AttemptEvent(retry.attempt, "raised",
                                           res.error, <<>>)>>])
    ELSE RetryStep([retry EXCEPT
             !.pc = "sleep", !.step = 0,
             !.trace = @ \o <<AttemptEvent(retry.attempt, "raised",
                                           res.error, <<>>)>>])

\* one await of an attempt of scrape_with_retry ends: it raised, which ends
\* the attempt; or it passed, and the next await is under way; or it was the
\* last one, and the parse ends the attempt
AttemptAwait ==
    /\ retry.pc = "attempt"
    /\ \E env \in AttemptEnvs :
           IF ~env.browserOk \/ retry.step = Len(AttemptAwaits)
           THEN Attempted(AttemptOutcome(env))
           ELSE RetryStep([retry EXCEPT !.step = @ + 1])

\* `await asyncio.sleep(2 ** attempt)` ends, and the loop goes on
RetrySleep ==
    /\ retry.pc = "sleep"
    /\ RetryStep(LoopHead([retry EXCEPT
           !.trace = @ \o <<SleepEvent(retry.attempt,
                                       Backoff(retry.attempt))>>],
           retry.attempt + 1))

\* the awaits of PlaywrightScraper.__aenter__, in order
EnterSteps ==
    <<"start", "launch", "new_page", "set_viewport_size",
      "set_extra_http_headers">>

\* what an await of __aenter__ starts when it succeeds: self.playwright,
\* self.browser, self.page
Started(step) ==
    CASE step = "start" -> {"driver"}
      [] step = "launch" -> {"browser"}
      [] step = "new_page" -> {"page"}
      [] OTHER -> {}

\* __aexit__ closes the page, then the browser, then stops the driver
ExitSteps == <<"page", "browser", "driver">>

SyncCalls == {"scrape_fandom_wiki_sync", "scrape_with_retry_sync"}

\* the call has returned to its caller
SyncReturns(b) ==
    IF b.pc = "returned"
    THEN lastOp' = [NoOp EXCEPT !.op = b.call, !.raised = b.result.raised,
                                !.prices = b.result.prices]
    ELSE lastOp' = lastOp

\* the call moves on to b
BrowserStep(b) ==
    /\ browser' = b
    /\ SyncReturns(b)
    /\ UNCHANGED <<client, playwright, sources, now, skinFile, fxFile,
                   skinWritten, fxWritten, input, retry, writers, amount>>

\* scrape_fandom_wiki_sync or scrape_with_retry_sync is called: asyncio.run
\* of the async wrapper, which enters `async with PlaywrightScraper()`
SyncCall ==
    /\ browser.pc = "idle"
    /\ \E call \in SyncCalls :
           BrowserStep([NoBrowser EXCEPT !.pc = "enter", !.call = call,
                                         !.step = 1])

\* the await of __aenter__ ended well: the next one, or the body of the
\* `async with`
Entered(b) ==
    IF b.step = Len(EnterSteps)
    THEN [b EXCEPT !.pc = "body", !.step = 1,
                   !.started = @ \cup Started(EnterSteps[b.step])]
    ELSE [b EXCEPT !.step = @ + 1,
                   !.started = @ \cup Started(EnterSteps[b.step])]

\* the await of __aenter__ raised: the `async with` has not been entered, so
\* __aexit__ is not run, and the exception leaves asyncio.run
EnterFailed(b) ==
    [b EXCEPT !.pc = "returned",
              !.result = [raised |-> TRUE, error |-> EnterSteps[b.step],
                          prices |-> <<>>]]

\* one await of __aenter__
AEnter ==
    /\ browser.pc = "enter"
    /\ \E ok \in BOOLEAN :
           BrowserStep(IF ok THEN Entered(browser) ELSE EnterFailed(browser))

\* one await of the body of scrape_fandom_wiki_async ends: it raised, which
\* scrape_fandom_wiki raises again; or it passed, and the next await is
\* under way; or it was the last one, and the parse gives the prices or
\* raises
BodyAwait ==
    /\ browser.pc = "body"
    /\ browser.call = "scrape_fandom_wiki_sync"
    /\ \E env \in AttemptEnvs :
           IF ~env.browserOk \/ browser.step = Len(ScrapeAwaits)
           THEN BrowserStep([browser EXCEPT !.pc = "exit", !.step = 1,
                                            !.result = AttemptOutcome(env)])
           ELSE BrowserStep([browser EXCEPT !.step = @ + 1])

\* the body of scrape_with_retry_async: a step of scrape_with_retry
RetryBody ==
    /\ browser.pc = "body"
    /\ browser.call = "scrape_with_retry_sync"
    /\ (RetryCall \/ AttemptAwait \/ RetrySleep)

\* scrape_with_retry has returned or raised: the `async with` is left
RetryBodyEnds ==
    /\ browser.pc = "body"
    /\ browser.call = "scrape_with_retry_sync"
    /\ retry.pc \in {"returned", "raised"}
    /\ BrowserStep([browser EXCEPT
           !.pc = "exit", !.step = 1,
           !.result = [raised |-> (retry.pc = "raised"),
                       error |-> retry.error, prices |-> retry.prices]])

\* the step of __aexit__ ended well: the next one, or the call returns or
\* raises what the body gave
Exited(b) ==
    [b EXCEPT !.released = IF ExitSteps[b.step] \in b.started
                           THEN @ \cup {ExitSteps[b.step]} ELSE @,
              !.pc = IF b.step = Len(ExitSteps) THEN "returned" ELSE @,
              !.step = IF b.step = Len(ExitSteps) THEN 0 ELSE @ + 1]

\* the close (stop for the driver) raised: __aexit__ ends there, what it had
\* still to close stays open, and the call raises that exception in place
\* of what the body gave
ExitFailed(b) ==
    [b EXCEPT !.pc = "returned", !.step = 0,
              !.result = [raised |-> TRUE, error |-> ExitSteps[b.step],
                          prices |-> <<>>]]

\* one `if self.x: await self.x.close()` of __aexit__ (stop for the driver)
AExit ==
    /\ browser.pc = "exit"
    /\ \E ok \in BOOLEAN :
           BrowserStep(IF ok \/ ExitSteps[browser.step] \notin browser.started
                       THEN Exited(browser) ELSE ExitFailed(browser))

\* a report of these lines was rendered
Reported(lines) ==
    /\ lastOp' = [NoOp EXCEPT !.op = "generate_report",
                              !.value = JStr(lines)]
    /\ UNCHANGED <<client, browser, playwright, sources, now, skinFile, fxFile,
                   skinWritten, fxWritten, input, retry, writers, amount>>

\* SkinVerifier.generate_report on the analysis
VerifierReport == Reported(GenerateReport(input))

\* convert_vp_to_currency without a rate lookup: an unknown key, or a
\* dollar amount
ConvertDirect(res) ==
    /\ lastOp' = [NoOp EXCEPT !.op = "convert_vp_to_currency",
                              !.value = JStr(res.text), !.price = res.cents]
    /\ UNCHANGED <<client, browser, playwright, sources, now, skinFile, fxFile,
                   skinWritten, fxWritten, input, retry, writers, amount>>

\* convert_vp_to_currency whose get_exchange_rates is served from the cache
ConvertHit(c, res) ==
    /\ c.hit
    /\ lastOp' = [NoOp EXCEPT !.op = "convert_vp_to_currency", !.cached = c,
                              !.value = JStr(res.text), !.price = res.cents]
    /\ UNCHANGED <<client, browser, playwright, sources, now, skinFile, fxFile,
                   skinWritten, fxWritten, input, retry, writers, amount>>

\* convert_vp_to_currency whose get_exchange_rates misses the cache, runs
\* the stages and writes the table
ConvertMiss(c, r, io, res) ==
    /\ ~c.hit
    /\ IF r.raised
       THEN /\ lastOp' = [NoOp EXCEPT !.op = "convert_vp_to_currency",
                                      !.invoked = r.stages,
                                      !.outcomes = <<r>>,
                                      !.value = JStr(ErrorText(
                                          "All exchange rate sources failed"
                                          ).text)]
            /\ UNCHANGED <<fxFile, fxWritten>>
       ELSE /\ lastOp' = [NoOp EXCEPT !.op = "convert_vp_to_currency",
                                      !.invoked = r.stages,
                                      !.outcomes = <<r>>,
                                      !.value = JStr(res.text),
                                      !.price = res.cents, !.io = io]
            /\ fxFile' = CacheRates(fxFile, r.rates, now, io)
            /\ fxWritten' = IF io = "ok" THEN Written(JDict(r.rates), now)
                            ELSE IF io = "open_error" THEN fxWritten
                            ELSE NotWritten
    /\ UNCHANGED <<client, browser, playwright, sources, now, skinFile,
                   skinWritten, input, retry, writers, amount>>

\* the rate lookup of convert_vp_to_currency: get_exchange_rates, then the
\* amount from the table it returned
ConvertLookup(x, key, base, c) ==
    \/ ConvertHit(c, ConvertWithRates(x, key, base, c.val))
    \/ \E api \in ApiOutcomes, io \in IOOutcomes :
           ConvertMiss(c, FetchExchangeRates(api), io,
                       ConvertWithRates(x, key, base,
                                        JDict(FetchExchangeRates(api).rates)))

\* a conversion that looks the rate up for the dollar as for any other code
ConvertAlwaysLookingUp(x, key, base) ==
    IF key \notin DOMAIN CURRENCY_MAP
    THEN ConvertDirect(ErrorText("Invalid currency key"))
    ELSE ConvertLookup(x, key, base, GetCachedRates(fxFile, now))

\* convert_vp_to_currency(x, key), x an int or a float and base the base
\* price unpacked from CURRENCY_MAP[key]
Convert(x, key, base) ==
    IF key \notin DOMAIN CURRENCY_MAP
    THEN ConvertDirect(ErrorText("Invalid currency key"))
    ELSE IF GetCurrencyCode(key) = "USD"
    THEN ConvertDirect(ConvertUsd(x, key, base))
    ELSE ConvertLookup(x, key, base, GetCachedRates(fxFile, now))

\* CurrencyConverter.convert_vp_to_currency (and calculate_currency_amount)
\* on the call
ConvertVpToCurrency ==
    /\ client = "converter"
    /\ input \in ConvertCalls
    /\ Convert(JInt(input.vp), input.key, input.base)

\* what get_price gave: an exception, or a value
PriceRaised == [raised |-> TRUE, value |-> JNull]

PriceReturned(x) == [raised |-> FALSE, value |-> x]

\* a load that lets the exception of get_price through and keeps the amount
LoadOutcomePropagating(r, old) ==
    [raised |-> r.raised, amount |-> IF r.raised THEN old ELSE r.value]

\* the try / except of _load_prices around get_price: whether an exception
\* leaves _load_prices, and self.amount afterwards
LoadOutcome(r, old) ==
    [raised |-> FALSE, amount |-> IF r.raised THEN JInt(0) ELSE r.value]

\* _load_prices has run, get_price having ended as r
PricesLoaded(r) ==
    /\ amount' = LoadOutcome(r, amount).amount
    /\ lastOp' = [NoOp EXCEPT !.op = "load_prices",
                              !.raised = LoadOutcome(r, amount).raised,
                              !.outcomes = <<r>>,
                              !.value = LoadOutcome(r, amount).amount]
    /\ UNCHANGED <<client, browser, playwright, sources, now, fxFile,
                   fxWritten, input, retry, writers>>

\* _load_prices whose get_price is served from the cache
LoadPricesHit(c) ==
    /\ c.hit
    /\ PricesLoaded(PriceReturned(c.val))
    /\ UNCHANGED <<skinFile, skinWritten>>

\* _load_prices whose get_price misses the cache: the fetch, and the write
\* of the total
LoadPricesMiss(c, m, io) ==
    /\ ~c.hit
    /\ IF m.raised
       THEN /\ PricesLoaded(PriceRaised)
            /\ UNCHANGED <<skinFile, skinWritten>>
       ELSE /\ PricesLoaded(PriceReturned(JInt(Sum(m.prices))))
            /\ skinFile' = CachePrices(skinFile, Sum(m.prices), now, io)
            /\ skinWritten' = IF io = "ok"
                              THEN Written(JInt(Sum(m.prices)), now)
                              ELSE IF io = "open_error" THEN skinWritten
                              ELSE NotWritten

\* SkinPriceCalculator._load_prices
LoadPrices ==
    /\ client = "calculator"
    /\ \/ LoadPricesHit(GetCachedPrices(skinFile, now))
       \/ \E env \in Envs, io \in IOOutcomes :
              LoadPricesMiss(GetCachedPrices(skinFile, now),
                             GetPricesFrom(sources, playwright, env), io)

\* refresh_prices after its two unlinks, with what its _load_prices got: r is
\* what get_price gave, file what get_price left in the catalog cache, fx
\* what refresh_rates left of the rate cache
PricesRefreshed(r, file, written, fx, fxw, unlink) ==
    /\ amount' = LoadOutcome(r, amount).amount
    /\ lastOp' = [NoOp EXCEPT !.op = "refresh_prices",
                              !.raised = LoadOutcome(r, amount).raised,
                              !.outcomes = <<r>>,
                              !.io = unlink,
                              !.value = LoadOutcome(r, amount).amount]
    /\ skinFile' = file
    /\ skinWritten' = written
    /\ fxFile' = fx
    /\ fxWritten' = fxw
    /\ UNCHANGED <<client, browser, playwright, sources, now, input, retry,
                   writers>>

\* the _load_prices of refresh_prices over the catalog cache that
\* refresh_cache left: get_price reads it, and on a miss fetches and writes
\* the total if the fetch gave one
RefreshLoad(file, written, c, m, io, fx, fxw, unlink) ==
    IF c.hit
    THEN PricesRefreshed(PriceReturned(c.val), file, written, fx, fxw, unlink)
    ELSE IF m.raised
    THEN PricesRefreshed(PriceRaised, file, written, fx, fxw, unlink)
    ELSE PricesRefreshed(
             PriceReturned(JInt(Sum(m.prices))),
             CachePrices(file, Sum(m.prices), now, io),
             IF io = "ok" THEN Written(JInt(Sum(m.prices)), now)
             ELSE IF io = "open_error" THEN written
             ELSE NotWritten,
             fx, fxw, unlink)

\* SkinPriceCalculator.refresh_prices, once the calculator is made:
\* refresh_cache, refresh_rates, _load_prices
RefreshPrices ==
    /\ client = "calculator"
    /\ lastOp.op # "none"
    /\ \E u1, u2 \in UnlinkOutcomes, env \in Envs, io \in IOOutcomes :
           RefreshLoad(RefreshCacheFile(skinFile, u1),
                       WrittenAfterClear(skinFile, u1, skinWritten),
                       GetCachedPrices(RefreshCacheFile(skinFile, u1), now),
                       GetPricesFrom(sources, playwright, env), io,
                       RefreshRatesFile(fxFile, u2),
                       WrittenAfterClear(fxFile, u2, fxWritten),
                       Unlinked(skinFile, u1))

\* convert_vp_to_currency on self.amount: `vp_amount * VP_TO_USD_RATE` is a
\* TypeError for a string and for None, after the test of the key
ConvertAmount(x, key) ==
    IF key \notin DOMAIN CURRENCY_MAP
    THEN ConvertDirect(ErrorText("Invalid currency key"))
    ELSE IF x.t = "str"
    THEN ConvertDirect(ErrorText("can't multiply sequence by non-int"))
    ELSE IF x.t \notin {"int", "float"}
    THEN ConvertDirect(ErrorText("unsupported operand type(s) for *"))
    ELSE Convert(x, key, CURRENCY_MAP[key].base)

\* SkinPriceCalculator.calculate_currency_amount, once the calculator is made
CalculateCurrencyAmount ==
    /\ client = "calculator"
    /\ lastOp.op # "none"
    /\ \E key \in ConvertKeys : ConvertAmount(amount, key)

\* time passes
Tick ==
    /\ now + TickHours <= MaxTime
    /\ now' = now + TickHours
    /\ UNCHANGED <<client, browser, playwright, sources, skinFile, fxFile,
                   lastOp, skinWritten, fxWritten, input, retry, writers,
                   amount>>

Next ==
    \/ GetPrices
    \/ GetTotalPrice
    \/ GetPrice
    \/ RefreshCache
    \/ GetExchangeRates
    \/ RefreshRates
    \/ Tick

\* the program as it is built
Spec == Init /\ [][Next]_vars

NextSources == GetPrices \/ GetTotalPrice \/ GetPrice \/ RefreshCache

\* the manager's loop over any source list
SpecSources == InitSources /\ [][NextSources]_vars

NextRows == ScraperExtractRow \/ VerifierExtractRow

\* the row extraction over any row
SpecRows == InitRows /\ [][NextRows]_vars

NextPages == ScraperExtract \/ RequestsExtract \/ WikiExtract \/ VerifierAnalyze

\* the table extraction over any page
SpecPages == InitPages /\ [][NextPages]_vars

NextConvert == ConvertVpToCurrency \/ RefreshRates

\* the conversion over any rate cache file
SpecConvert == InitConvert /\ [][NextConvert]_vars

NextReport == VerifierReport

\* the report over any analysis
SpecReport == InitReport /\ [][NextReport]_vars

NextKeywords == VerifierExtractInfo

\* the record of a row over any set of keywords
SpecKeywords == InitKeywords /\ [][NextKeywords]_vars

NextRetry == RetryCall \/ AttemptAwait \/ RetrySleep

NextBrowser ==
    SyncCall \/ AEnter \/ BodyAwait \/ RetryBody \/ RetryBodyEnds \/ AExit

\* the retry loop over every outcome of every attempt
SpecRetry == InitRetry /\ [][NextRetry]_vars

\* the same, where an attempt and a sleep that have started do end: the
\* browser calls carry timeouts, and the sleep is finite
SpecRetryFair ==
    SpecRetry /\ WF_vars(AttemptAwait) /\ WF_vars(RetrySleep)

\* the sync wrappers of the browser scraper, over every outcome of every
\* await
SpecBrowser == InitRetry /\ [][NextBrowser]_vars

NextCalculator == LoadPrices \/ CalculateCurrencyAmount

\* the calculator over any price cache file and any outcome of the fetch
SpecCalculator == InitCalculator /\ [][NextCalculator]_vars

NextRefresh == LoadPrices \/ RefreshPrices \/ CalculateCurrencyAmount

\* the calculator, loaded and then refreshed, over every outcome of the
\* fetches and of the writes
SpecRefresh == InitCalculator /\ [][NextRefresh]_vars

NextWriters ==
    \/ \E p \in 1..2 : WriterOpen(p)
    \/ \E p \in 1..2 : WriterClose(p)
    \/ WritersRead
    \/ Tick

\* two processes writing the price cache file, in every interleaving
SpecWriters == InitWriters /\ [][NextWriters]_vars

NextVerify == VerifierAnalyze

\* the verifier over pages of skin rows
SpecVerify == InitVerify /\ [][NextVerify]_vars

(***************************************************************************)
(* Properties.                                                             *)
(***************************************************************************)

\* C1: in a get_prices call of the manager as it is built, when the
\* browser-based source comes first and its fetch raises or returns an empty
\* list, the plain-HTTP source is invoked next, and its non-empty result is
\* returned rather than the exhaustion error.
C1_BrowserThenHttp ==
    (/\ lastOp.op = "get_prices"
     /\ lastOp.invoked # <<>>
     /\ lastOp.invoked[1] = "FandomWikiSource"
     /\ (lastOp.outcomes[1].raised \/ lastOp.outcomes[1].prices = <<>>))
    => /\ Len(lastOp.invoked) >= 2
       /\ lastOp.invoked[2] = "FandomWikiRequestsSource"
       /\ (~lastOp.outcomes[2].raised /\ lastOp.outcomes[2].prices # <<>>)
              => (~lastOp.raised /\ lastOp.prices = lastOp.outcomes[2].prices)

\* C2: for any source list, a get_prices or get_total_price that returns
\* has invoked a prefix of the list, in order; every source before the last
\* invoked one raised or gave an empty list; the last invoked one gave a
\* non-empty list, which is returned as it is (get_prices) or summed
\* (get_total_price); nothing of another source enters the result.
C2_FirstSuccessWins ==
    (lastOp.op \in {"get_prices", "get_total_price"} /\ ~lastOp.raised)
    => LET n == Len(lastOp.invoked)
       IN  /\ n >= 1
           /\ n <= Len(sources)
           /\ lastOp.invoked = SubSeq(sources, 1, n)
           /\ Len(lastOp.outcomes) = n
           /\ \A i \in 1..(n - 1) :
                  lastOp.outcomes[i].raised \/ lastOp.outcomes[i].prices = <<>>
           /\ ~lastOp.outcomes[n].raised
           /\ lastOp.outcomes[n].prices # <<>>
           /\ lastOp.op = "get_prices"
                  => lastOp.prices = lastOp.outcomes[n].prices
           /\ lastOp.op = "get_total_price"
                  => lastOp.value = JInt(Sum(lastOp.outcomes[n].prices))

\* a total returned from the second of three sources, the first having
\* raised and the third not having been invoked
C2_Witness ==
    /\ lastOp.op = "get_total_price"
    /\ ~lastOp.raised
    /\ Len(sources) = 3
    /\ Len(lastOp.invoked) = 2
    /\ lastOp.outcomes[1].raised
    /\ Len(lastOp.outcomes[2].prices) = 3
    /\ lastOp.value = JInt(3600)

\* C3: get_prices, get_total_price and a get_price that misses its cache
\* raise exactly when every configured source raised or gave an empty list
\* (every source having been invoked); get_prices never returns an empty
\* list, and a total that is returned is the sum of one source's non-empty
\* list.
C3_Exhaustion ==
    /\ (lastOp.op \in {"get_prices", "get_total_price", "get_price"}
        /\ ~lastOp.cached.hit)
       => /\ lastOp.raised <=>
                 \A i \in 1..Len(lastOp.outcomes) :
                     lastOp.outcomes[i].raised
                         \/ lastOp.outcomes[i].prices = <<>>
          /\ lastOp.raised => lastOp.invoked = sources
    /\ (lastOp.op = "get_prices" /\ ~lastOp.raised) => lastOp.prices # <<>>
    /\ (lastOp.op \in {"get_total_price", "get_price"}
        /\ ~lastOp.cached.hit /\ ~lastOp.raised)
       => \E i \in 1..Len(lastOp.outcomes) :
              /\ ~lastOp.outcomes[i].raised
              /\ lastOp.outcomes[i].prices # <<>>
              /\ lastOp.value = JInt(Sum(lastOp.outcomes[i].prices))

\* a get_price that raised after one source gave an empty list and another
\* raised
C3_Witness ==
    /\ lastOp.op = "get_price"
    /\ lastOp.raised
    /\ Len(lastOp.invoked) >= 2
    /\ \E i \in 1..Len(lastOp.outcomes) :
           ~lastOp.outcomes[i].raised /\ lastOp.outcomes[i].prices = <<>>
    /\ \E i \in 1..Len(lastOp.outcomes) : lastOp.outcomes[i].raised

\* C4: a get_price served from the cache invokes no source and returns the
\* cached value; and while a total stored by a get_price is on disk, less
\* than 6 hours old and not refreshed away, every get_price invokes no
\* source, returns that total and leaves the file as it is.
C4_CacheFirst ==
    /\ [](lastOp.op = "get_price" /\ lastOp.cached.hit
            => /\ lastOp.invoked = <<>>
               /\ ~lastOp.raised
               /\ lastOp.value = lastOp.cached.val)
    /\ [][(/\ skinWritten.some
           /\ now - skinWritten.at < CACHE_DURATION
           /\ lastOp'.op = "get_price"
           /\ lastOp' # lastOp)
          => /\ lastOp'.invoked = <<>>
             /\ ~lastOp'.raised
             /\ lastOp'.value = skinWritten.val
             /\ skinFile' = skinFile]_vars

\* a get_price served, some hours after it was stored, the total an earlier
\* get_price fetched
C4_Witness ==
    /\ lastOp.op = "get_price"
    /\ lastOp.cached.hit
    /\ skinWritten.some
    /\ lastOp.value = skinWritten.val
    /\ lastOp.value.t = "int"
    /\ now > skinWritten.at
    /\ now - skinWritten.at < CACHE_DURATION

\* C5: for both caches, the value last stored is what a read gives while
\* the entry is younger than the TTL; after refresh_cache / refresh_rates a
\* read is a miss; and a refresh raises nothing, whether or not there is a
\* file.
C5_RoundTrip ==
    /\ (skinWritten.some /\ now - skinWritten.at < CACHE_DURATION)
           => GetCachedPrices(skinFile, now) = Hit(skinWritten.val)
    /\ lastOp.op = "refresh_cache"
           => ~lastOp.raised /\ GetCachedPrices(skinFile, now) = Miss
    /\ (fxWritten.some /\ now - fxWritten.at < EXCHANGE_RATE_CACHE_DURATION)
           => GetCachedRates(fxFile, now) = Hit(fxWritten.val)
    /\ lastOp.op = "refresh_rates"
           => ~lastOp.raised /\ GetCachedRates(fxFile, now) = Miss

\* a get_exchange_rates served, some hours after it was stored, the table
\* an earlier get_exchange_rates fetched
C5_Witness ==
    /\ lastOp.op = "get_exchange_rates"
    /\ lastOp.cached.hit
    /\ fxWritten.some
    /\ lastOp.cached.val = fxWritten.val
    /\ lastOp.value.t = "dict"
    /\ now > fxWritten.at

\* C6: a get_price that reads a well-formed catalog entry is served from it
\* exactly when now - timestamp < 6 hours, and a get_exchange_rates that
\* reads a well-formed rate entry exactly when now - timestamp < 24 hours.
C6_TtlStrict ==
    [][/\ (/\ lastOp'.op = "get_price"
           /\ lastOp' # lastOp
           /\ CacheTime(skinFile).ok
           /\ skinFile.value.t = "number")
          => (lastOp'.cached.hit
                  <=> now - CacheTime(skinFile).val < CACHE_DURATION)
       /\ (/\ lastOp'.op = "get_exchange_rates"
           /\ lastOp' # lastOp
           /\ CacheTime(fxFile).ok
           /\ fxFile.value.t = "object")
          => (lastOp'.cached.hit
                  <=> now - CacheTime(fxFile).val
                          < EXCHANGE_RATE_CACHE_DURATION)]_vars

\* a get_price that missed a well-formed entry aged exactly 6 hours (the
\* fetch then raised, so the entry is still the one that was read)
C6_Witness ==
    /\ lastOp.op = "get_price"
    /\ lastOp.raised
    /\ CacheTime(skinFile).ok
    /\ skinFile.value.t = "number"
    /\ now - CacheTime(skinFile).val = CACHE_DURATION

\* C7: a cache read gives a well-formed cached value or a miss: what
\* get_price takes from the cache is an integer, and what
\* get_exchange_rates takes from the cache is a table.
C7_MalformedIsMiss ==
    /\ (lastOp.op = "get_price" /\ lastOp.cached.hit)
           => lastOp.cached.val.t = "int"
    /\ (lastOp.op = "get_exchange_rates" /\ lastOp.cached.hit)
           => lastOp.cached.val.t = "dict"

\* C8: when the write that follows a fetch fails, get_price still returns
\* the total it fetched and get_exchange_rates the table it fetched;
\* neither raises.
C8_WriteBestEffort ==
    /\ (lastOp.op = "get_price" /\ lastOp.io \in {"open_error", "write_error"})
           => /\ ~lastOp.raised
              /\ \E i \in 1..Len(lastOp.outcomes) :
                     /\ ~lastOp.outcomes[i].raised
                     /\ lastOp.outcomes[i].prices # <<>>
                     /\ lastOp.value = JInt(Sum(lastOp.outcomes[i].prices))
    /\ (lastOp.op = "get_exchange_rates"
        /\ lastOp.io \in {"open_error", "write_error"})
           => /\ ~lastOp.raised
              /\ lastOp.value = JDict(lastOp.outcomes[1].rates)
    /\ (lastOp.op \in {"get_price", "get_exchange_rates"}
        /\ ~lastOp.cached.hit /\ lastOp.raised)
           => lastOp.io = "none"

\* a get_price that returned its fetched total although the write broke
\* off and left an unparsable file
C8_Witness ==
    /\ lastOp.op = "get_price"
    /\ lastOp.io = "write_error"
    /\ ~lastOp.raised
    /\ lastOp.value.t = "int"
    /\ lastOp.value.v > 0
    /\ skinFile = Garbage

\* C9: a step changes a cache file only if it is a refresh, which deletes
\* it, or a get_price / get_exchange_rates that missed, fetched without
\* raising and then wrote; a file is deleted by a refresh only; a call
\* served from the cache, and a call whose fetch raised, leave the file as
\* it is.
C9_FileFrame ==
    [][/\ skinFile' # skinFile
          => \/ lastOp'.op = "refresh_cache" /\ skinFile' = Absent
             \/ /\ lastOp'.op = "get_price"
                /\ ~lastOp'.cached.hit
                /\ ~lastOp'.raised
                /\ lastOp'.invoked # <<>>
                /\ lastOp'.io \in {"ok", "write_error"}
                /\ skinFile' # Absent
       /\ fxFile' # fxFile
          => \/ lastOp'.op = "refresh_rates" /\ fxFile' = Absent
             \/ /\ lastOp'.op = "get_exchange_rates"
                /\ ~lastOp'.cached.hit
                /\ ~lastOp'.raised
                /\ lastOp'.invoked # <<>>
                /\ lastOp'.io \in {"ok", "write_error"}
                /\ fxFile' # Absent
       /\ (lastOp' # lastOp
           /\ lastOp'.op \in {"get_price", "get_exchange_rates"}
           /\ (lastOp'.cached.hit \/ lastOp'.raised))
          => (skinFile' = skinFile /\ fxFile' = fxFile)]_vars

\* a get_price that found an expired entry, could not fetch, and left the
\* entry where it was
C9_Witness ==
    /\ lastOp.op = "get_price"
    /\ lastOp.raised
    /\ CacheTime(skinFile).ok
    /\ skinFile.value.t = "number"
    /\ now - CacheTime(skinFile).val > CACHE_DURATION

\* C10: for every row, a price that the scraper's or the verifier's row
\* extraction takes from an unmarked cell lies in 800..6000, and a row with
\* a marked cell gives the integer of that cell whatever its value, the
\* range not being applied.
C10_FallbackRange ==
    lastOp.op \in {"scraper_row", "verifier_row"}
    => /\ (FirstMarked(input) = 0 /\ lastOp.price.some)
              => (MIN_VP <= lastOp.price.val /\ lastOp.price.val <= MAX_VP)
       /\ FirstMarked(input) # 0
              => lastOp.price
                     = ParsedPrice(PyInt(ReSubDecoration(
                           Strip(input[FirstMarked(input)].text))))

\* a row of two unmarked cells: the first holds a number above the range
\* and is passed over, the second gives the price
C10_Witness ==
    /\ lastOp.op = "scraper_row"
    /\ Len(input) = 2
    /\ FirstMarked(input) = 0
    /\ input[1].text = T_7000
    /\ lastOp.price = Some(950)

\* C11: the scraper's extraction returns, in row order, what the data rows
\* of the target tables yield one by one: a row with a marked cell yields
\* the integer of that cell if its text parses and nothing otherwise, with
\* no scan of the other cells; a row without a marked cell yields the number
\* of its first cell whose number lies in 800..6000, and nothing if there is
\* none.  Rows [marked 1200, marked 'abc', unmarked '950 VP'] yield
\* [1200, 950].
C11_PerRowRule ==
    LET rows == RowsOfTables(TargetTables(input))
        IsMarked(row) == \E i \in 1..Len(row) : row[i].marked
        MarkedCell(row) ==
            row[CHOOSE i \in 1..Len(row) :
                    /\ row[i].marked
                    /\ \A j \in 1..(i - 1) : ~row[j].marked]
        MarkedInt(row) == PyInt(ReSubDecoration(Strip(MarkedCell(row).text)))
        CellNumber(cell) ==
            PyInt(ReSubDecoration(ReSearchPrice(Strip(cell.text)).text)).val
        InRange(cell) ==
            /\ ReSearchPrice(Strip(cell.text)).found
            /\ 800 <= CellNumber(cell)
            /\ CellNumber(cell) <= 6000
        Yield(row) ==
            IF IsMarked(row)
            THEN IF MarkedInt(row).ok THEN <<MarkedInt(row).val>> ELSE <<>>
            ELSE IF \E i \in 1..Len(row) : InRange(row[i])
            THEN <<CellNumber(row[CHOOSE i \in 1..Len(row) :
                                     /\ InRange(row[i])
                                     /\ \A j \in 1..(i - 1) :
                                            ~InRange(row[j])])>>
            ELSE <<>>
        RECURSIVE Yields(_)
        Yields(rs) ==
            IF rs = <<>> THEN <<>> ELSE Yield(Head(rs)) \o Yields(Tail(rs))
    IN  /\ (lastOp.op = "scraper_extract" /\ ~lastOp.raised)
               => lastOp.prices = Yields(rows)
        /\ (/\ lastOp.op = "scraper_extract"
            /\ input = <<FirstTable, TableExample, TableHeaderOnly>>)
               => (~lastOp.raised /\ lastOp.prices = <<1200, 950>>)

\* the extraction of a page whose second table has a row with a marked text
\* that is no number beside an unmarked number in the range, and whose third
\* table has the three rows of the example
C11_Witness ==
    /\ lastOp.op = "scraper_extract"
    /\ input = <<FirstTable, TableSigns, TableExample>>
    /\ lastOp.prices = <<-50, 0, 1775, 1200, 950>>

\* C12: on a page with no matching table or with one, the extraction of the
\* scraper and that of FandomWikiSource raise: no list is returned, not
\* even an empty one, and no price of the first table is read.
C12_FewerThanTwoTables ==
    (lastOp.op \in {"scraper_extract", "wiki_extract"} /\ Len(input) < 2)
        => (lastOp.raised /\ lastOp.prices = <<>>)

\* the scraper's extraction raised on a page whose only table has a row
\* with a marked price
C12_Witness ==
    /\ lastOp.op = "scraper_extract"
    /\ input = <<FirstTable>>
    /\ ScraperPriceFromRow(FirstTable[2]) = Some(4350)
    /\ lastOp.raised

\* C13: on a page with two matching tables or more, the scraper's
\* extraction and the verifier's analysis give the prices of the rows of the
\* second table after its first row, then those of the rows of the third
\* table after its first row if there is a third, each in row order; the
\* first table and the tables from the fourth on give nothing.
C13_OrdinalTables ==
    LET Body(table) == IF table = <<>> THEN <<>> ELSE Tail(table)
        Third == IF Len(input) >= 3 THEN Body(input[3]) ELSE <<>>
    IN  Len(input) >= 2
        => /\ lastOp.op = "scraper_extract"
                  => /\ ~lastOp.raised
                     /\ lastOp.prices
                            = ScraperRowsPrices(Body(input[2]))
                                  \o ScraperRowsPrices(Third)
           /\ lastOp.op = "verifier_analyze"
                  => /\ lastOp.value = JNull
                     /\ lastOp.prices
                            = VerifierRowsPrices(Body(input[2]))
                                  \o VerifierRowsPrices(Third)

\* the extraction of a page of four tables whose first and fourth have a
\* row with the marked price 4350, and whose headers all carry it
C13_Witness ==
    /\ lastOp.op = "scraper_extract"
    /\ input = <<FirstTable, TableExample, TableScan, FirstTable>>
    /\ lastOp.prices = <<1200, 950, 1275, 2175>>

\* C14: on every page, the extraction of the plain-HTTP source ends as the
\* scraper's extraction does: it raises when that raises, and returns the
\* same sequence of prices when that returns.
C14_SameExtraction ==
    lastOp.op = "requests_extract"
        => /\ lastOp.raised = ExtractPricesFromSoup(input).raised
           /\ lastOp.prices = ExtractPricesFromSoup(input).prices

\* C15: the extraction of FandomWikiSource, on a page with two matching
\* tables or more, never raises: a data row without a marked cell gives a
\* price from one of its cells or is skipped, and the rows after it are
\* processed.
C15_UnmarkedRowNoAbort ==
    (lastOp.op = "wiki_extract" /\ Len(input) >= 2) => ~lastOp.raised

\* C16: a get_exchange_rates that finds a valid cache entry invokes no
\* stage and returns the cached table; one that does not invokes the stages
\* in the order live, secondary, static, each only after the ones before it
\* failed (the secondary always fails), stops at the first that gives a
\* non-empty table without raising, returns that table and writes it to the
\* cache.
C16_RateChain ==
    /\ [](lastOp.op = "get_exchange_rates"
            => IF lastOp.cached.hit
               THEN /\ lastOp.invoked = <<>>
                    /\ lastOp.outcomes = <<>>
                    /\ ~lastOp.raised
                    /\ lastOp.value = lastOp.cached.val
               ELSE LET r == lastOp.outcomes[1]
                        n == Len(lastOp.invoked)
                    IN  /\ n >= 1
                        /\ lastOp.invoked
                               = SubSeq(<<"live", "secondary", "static">>, 1, n)
                        /\ Len(r.results) = n
                        /\ \A i \in 1..(n - 1) :
                               \/ r.results[i].raised
                               \/ DOMAIN r.results[i].rates = {}
                        /\ n >= 2 => r.results[2].raised
                        /\ ~lastOp.raised
                        /\ ~r.results[n].raised
                        /\ DOMAIN r.results[n].rates # {}
                        /\ lastOp.value = JDict(r.results[n].rates)
                        /\ lastOp.io = "ok"
                               => /\ fxWritten.some
                                  /\ fxWritten.val = lastOp.value
                                  /\ GetCachedRates(fxFile, fxWritten.at)
                                         = Hit(lastOp.value))
    /\ [][(lastOp' # lastOp /\ lastOp'.op = "get_exchange_rates")
             => lastOp'.cached = GetCachedRates(fxFile, now)]_vars

\* a get_exchange_rates that missed the cache, ran the three stages because
\* the live API failed, and wrote the static table
C16_Witness ==
    /\ lastOp.op = "get_exchange_rates"
    /\ ~lastOp.cached.hit
    /\ lastOp.invoked = <<"live", "secondary", "static">>
    /\ lastOp.outcomes[1].results[1].raised
    /\ lastOp.value = JDict(FallbackRates)
    /\ lastOp.io = "ok"
    /\ GetCachedRates(fxFile, now) = Hit(lastOp.value)

\* C17: a table that get_exchange_rates returns from a stage, or reads
\* back from the cache file a get_exchange_rates wrote, gives USD the rate
\* 1.0 and has the code of each of the 13 keys of the currency catalog,
\* whichever codes the response of the live API had.
C17_RateTable ==
    (/\ lastOp.op = "get_exchange_rates"
     /\ ~lastOp.raised
     /\ (~lastOp.cached.hit \/ fxWritten.some))
        => /\ lastOp.value.t = "dict"
           /\ "USD" \in DOMAIN lastOp.value.v
           /\ lastOp.value.v["USD"] = 100
           /\ Cardinality({GetCurrencyCode(k) : k \in CurrencyKeys}) = 13
           /\ \A k \in CurrencyKeys :
                  GetCurrencyCode(k) \in DOMAIN lastOp.value.v

\* a table read back from the cache, written when the live API answered
\* with three codes only: the others have their default rates
C17_Witness ==
    /\ lastOp.op = "get_exchange_rates"
    /\ lastOp.cached.hit
    /\ fxWritten.some
    /\ lastOp.value = fxWritten.val
    /\ lastOp.value.v["EUR"] = 92
    /\ lastOp.value.v["AUD"] = 150
    /\ lastOp.value.v["USD"] = 100

\* C18: convert_vp_to_currency never raises and returns a string.  The
\* string begins with "Error:" when the key is not in the catalog, when the
\* code of the key is not in the table get_exchange_rates returned, and
\* when what get_exchange_rates returned is no table or the lookup raised;
\* for a key of the catalog whose rate is at hand (always so for the dollar)
\* it is an amount in the format of the key, not an error.
C18_ConvertNeverRaises ==
    lastOp.op = "convert_vp_to_currency"
    => LET text == lastOp.value.v
           IsError ==
               /\ Len(text) >= 6
               /\ SubSeq(text, 1, 6) = <<"E", "r", "r", "o", "r", ":">>
           known == input.key \in CurrencyKeys
           code == GetCurrencyCode(input.key)
           looked == lastOp.cached.hit \/ lastOp.outcomes # <<>>
           rates ==
               IF lastOp.cached.hit THEN lastOp.cached.val
               ELSE IF lastOp.outcomes[1].raised THEN JNull
               ELSE JDict(lastOp.outcomes[1].rates)
           available ==
               \/ code = "USD"
               \/ /\ looked
                  /\ rates.t = "dict"
                  /\ code \in DOMAIN rates.v
           prefix == CURRENCY_MAP[input.key].format
       IN  /\ ~lastOp.raised
           /\ lastOp.value.t = "str"
           /\ ~known => IsError
           /\ (known /\ ~available) => IsError
           /\ (known /\ available)
                  => /\ ~IsError
                     /\ lastOp.price.some
                     /\ Len(text) > Len(prefix)
                     /\ SubSeq(text, 1, Len(prefix)) = prefix
                     /\ IsDigit(text[Len(prefix) + 1])

\* a conversion to pounds served from a cached table that has the dollar
\* and the euro only
C18_Witness ==
    /\ lastOp.op = "convert_vp_to_currency"
    /\ input.key = "Pound Sterling (£)"
    /\ lastOp.cached.hit
    /\ lastOp.cached.val.t = "dict"
    /\ DOMAIN lastOp.cached.val.v = {"USD", "EUR"}
    /\ SubSeq(lastOp.value.v, 1, 6) = <<"E", "r", "r", "o", "r", ":">>

\* C19: for the key 'United States Dollar ($)' and every VP amount v, the
\* string returned is "$" and the decimal of v / 110 dollars rounded to the
\* nearest cent: 11000 gives 100, 1100 gives 10, 22000 gives 200, 1000
\* gives 9.09 and 50000 gives 454.55.
C19_UsdAnchor ==
    (lastOp.op = "convert_vp_to_currency"
     /\ input.key = "United States Dollar ($)")
    => LET text == lastOp.value.v
           number == ReSubDecoration(Tail(text))
           cents ==
               IF PointAt(number) = 0 THEN 100 * DigitsValue(number)
               ELSE ParseFloat(number, PointAt(number))
           off == 110 * cents - 100 * input.vp
       IN  /\ Head(text) = "$"
           /\ \A i \in 1..Len(number) : IsDigit(number[i]) \/ number[i] = "."
           /\ 2 * off <= 110
           /\ 2 * off >= -110
           /\ input.vp = 11000 => text = <<"$", "1", "0", "0">>
           /\ input.vp = 1100 => text = <<"$", "1", "0">>
           /\ input.vp = 22000 => text = <<"$", "2", "0", "0">>
           /\ input.vp = 1000 => text = <<"$", "9", ".", "0", "9">>
           /\ input.vp = 50000
                  => text = <<"$", "4", "5", "4", ".", "5", "5">>

\* 50000 VP in dollars: 454.5454... rounds up to 454.55
C19_Witness ==
    /\ lastOp.op = "convert_vp_to_currency"
    /\ input.key = "United States Dollar ($)"
    /\ input.vp = 50000
    /\ lastOp.price = Some(45455)
    /\ lastOp.value = JStr(<<"$", "4", "5", "4", ".", "5", "5">>)

\* C20: the amount a conversion returns depends on the base price that the
\* catalog gives the currency: the same call against a catalog with another
\* base price for the key gives another amount.
C20_BasePriceMatters ==
    (/\ lastOp.op = "convert_vp_to_currency"
     /\ lastOp.price.some
     /\ input.vp > 0)
    => LET code == GetCurrencyCode(input.key)
           rate ==
               IF code = "USD" THEN 100
               ELSE IF lastOp.cached.hit THEN lastOp.cached.val.v[code]
               ELSE lastOp.outcomes[1].rates[code]
       IN  \A b \in BasePrices(input.key) \ {input.base} :
               lastOp.price.val # TargetCents(input.vp, rate, b)

\* C21: for every amount and key, the string a conversion returns denotes
\* the number that the two-decimal text of the amount denotes, and is that
\* text without its fractional zeros at the end and then without a point
\* left at the end: nothing of the integer part is removed.  11000 VP in
\* dollars is '$100' and 0 VP is '$0'.
C21_StripKeepsValue ==
    (lastOp.op = "convert_vp_to_currency" /\ lastOp.price.some)
    => LET text == lastOp.value.v
           prefix == CURRENCY_MAP[input.key].format
           shown == SubSeq(text, Len(prefix) + 1, Len(text))
           number == ReSubDecoration(shown)
           cents ==
               IF PointAt(number) = 0 THEN 100 * DigitsValue(number)
               ELSE ParseFloat(number, PointAt(number))
           whole == GroupThousands(NatStr(lastOp.price.val \div 100))
           full == prefix \o Format2f(lastOp.price.val)
       IN  /\ cents = lastOp.price.val
           /\ \E rest \in {<<>>, <<"0">>, <<".", "0", "0">>} :
                  text \o rest = full
           /\ Len(text) >= Len(prefix) + Len(whole)
           /\ SubSeq(text, 1, Len(prefix) + Len(whole)) = prefix \o whole
           /\ text[Len(text)] # "."
           /\ PointAt(shown) # 0 => text[Len(text)] # "0"
           /\ (input.key = "United States Dollar ($)" /\ input.vp = 11000)
                  => text = <<"$", "1", "0", "0">>
           /\ (input.key = "United States Dollar ($)" /\ input.vp = 0)
                  => text = <<"$", "0">>

\* 11000 VP in rupees at 75.0: 7,500.00 is shown as 7,500, the zeros of the
\* integer part kept
C21_Witness ==
    /\ lastOp.op = "convert_vp_to_currency"
    /\ input.key = "Indian Rupee (₹)"
    /\ input.vp = 11000
    /\ lastOp.price = Some(750000)
    /\ lastOp.value = JStr(<<"₹", "7", ",", "5", "0", "0">>)

\* what the last analysis returned
LastAnalysis == lastOp.outcomes[1]

\* an analysis of the target tables has just ended
Analysed ==
    /\ lastOp.op = "verifier_analyze"
    /\ lastOp.outcomes # <<>>
    /\ LastAnalysis.error = ""

\* C22: the data-quality score is 100 times the share of the records that
\* have a non-blank name, a weapon other than "Unknown" and a price above 0,
\* and no record flagged in missing_data is counted as valid.
C22_ScoreCountsNamedWeapons ==
    (Analysed /\ LastAnalysis.total_skins > 0) =>
        /\ LastAnalysis.quality.data_quality_score =
               Score(Cardinality({i \in 1..LastAnalysis.total_skins :
                         StrictlyValid(LastAnalysis.skin_details[i])}),
                     LastAnalysis.total_skins)
        /\ LastAnalysis.quality.missing_data # <<>> =>
               LastAnalysis.quality.data_quality_score < 10000

\* the names of the records of the last analysis
NamesOf(details) == {details[i].name : i \in 1..Len(details)}

\* C23: duplicate_skins holds exactly the names that more than one record
\* of the two target tables carries, and two priced rows named
\* "Prime Vandal" give ["Prime Vandal"].
C23_DuplicateNames ==
    Analysed =>
        /\ \A name \in NamesOf(LastAnalysis.skin_details) :
               name \in LastAnalysis.quality.duplicate_skins
                   <=> \E i, j \in 1..LastAnalysis.total_skins :
                           /\ i # j
                           /\ LastAnalysis.skin_details[i].name = name
                           /\ LastAnalysis.skin_details[j].name = name
        /\ LastAnalysis.quality.duplicate_skins
               \subseteq NamesOf(LastAnalysis.skin_details)
        /\ input = <<FirstTable, <<HeaderRow, RowPrimeVandal, RowPrimeVandal>>>>
               => LastAnalysis.quality.duplicate_skins = {T_PrimeVandal}

\* two rows of the same name, one in each table, beside a row of another
\* name: the name of the two is listed, the other is not
C23_Witness ==
    /\ Analysed
    /\ Len(input) = 3
    /\ LastAnalysis.total_skins = 3
    /\ LastAnalysis.skin_details[1].name = T_PrimeVandal
    /\ LastAnalysis.skin_details[3].name = T_PrimeVandal
    /\ LastAnalysis.skin_details[2].name # T_PrimeVandal
    /\ LastAnalysis.quality.duplicate_skins = {T_PrimeVandal}

\* the coverage labels among the lines of a report
LabelsIn(lines) == SelectSeq(lines, LAMBDA line : line \in CoverageLabels)

\* a report of an analysis that has no "error" entry was rendered
Rendered ==
    /\ lastOp.op = "generate_report"
    /\ ~input.has_error

\* C24: against the baseline 496 the report of a record count a carries
\* exactly one coverage label: excellent iff 100 * a / 496 >= 95
\* (a >= 472), good iff 397 <= a <= 471, acceptable iff 298 <= a <= 396,
\* and poor otherwise; 480 records are labelled excellent.
C24_CoverageTiers ==
    Rendered =>
        /\ Len(LabelsIn(lastOp.value.v)) = 1
        /\ LabelsIn(lastOp.value.v)[1] = "Coverage is excellent"
               <=> input.total_skins >= 472
        /\ LabelsIn(lastOp.value.v)[1] = "Coverage is excellent"
               <=> 100 * input.total_skins >= 95 * 496
        /\ LabelsIn(lastOp.value.v)[1] = "Coverage is good"
               <=> (397 <= input.total_skins /\ input.total_skins <= 471)
        /\ LabelsIn(lastOp.value.v)[1] = "Coverage is good"
               <=> (100 * input.total_skins >= 80 * 496
                        /\ 100 * input.total_skins < 95 * 496)
        /\ LabelsIn(lastOp.value.v)[1] = "Coverage is acceptable"
               <=> (298 <= input.total_skins /\ input.total_skins <= 396)
        /\ LabelsIn(lastOp.value.v)[1] = "Coverage is acceptable"
               <=> (100 * input.total_skins >= 60 * 496
                        /\ 100 * input.total_skins < 80 * 496)
        /\ LabelsIn(lastOp.value.v)[1] = "Coverage is poor"
               <=> input.total_skins <= 297
        /\ input.total_skins = 480
               => LabelsIn(lastOp.value.v) = <<"Coverage is excellent">>

\* the report of 480 records says excellent
C24_Witness ==
    /\ Rendered
    /\ input.total_skins = 480
    /\ LabelsIn(lastOp.value.v) = <<"Coverage is excellent">>

\* the keyword is in the text of the row, whatever the case of its letters
Present(k) == Contains(Lower(RowText(input)), Keywords[k])

\* the record of the row was made
InfoExtracted ==
    lastOp.op = "verifier_extract_info" /\ lastOp.outcomes # <<>>

\* C25: the edition of a row is that of the first keyword present in the
\* order ultra, exclusive, premium, deluxe, select, else "Unknown"; the
\* source is "Battle Pass" if "battle pass" or "battlepass" is present, else
\* "Agent Gear" if "agent gear" is, else "Store" if "store" or "night market"
\* is, else "Unknown"; the case of the letters does not matter.
C25_KeywordPriority ==
    InfoExtracted =>
        /\ lastOp.outcomes[1].edition = "Ultra" <=> Present(1)
        /\ lastOp.outcomes[1].edition = "Exclusive"
               <=> (Present(2) /\ ~Present(1))
        /\ lastOp.outcomes[1].edition = "Premium"
               <=> (Present(3) /\ ~Present(1) /\ ~Present(2))
        /\ lastOp.outcomes[1].edition = "Deluxe"
               <=> (Present(4) /\ \A k \in 1..3 : ~Present(k))
        /\ lastOp.outcomes[1].edition = "Select"
               <=> (Present(5) /\ \A k \in 1..4 : ~Present(k))
        /\ lastOp.outcomes[1].edition = "Unknown"
               <=> \A k \in 1..5 : ~Present(k)
        /\ lastOp.outcomes[1].source = "Battle Pass"
               <=> (Present(6) \/ Present(7))
        /\ lastOp.outcomes[1].source = "Agent Gear"
               <=> (Present(8) /\ ~Present(6) /\ ~Present(7))
        /\ lastOp.outcomes[1].source = "Store"
               <=> ((Present(9) \/ Present(10))
                        /\ \A k \in 6..8 : ~Present(k))
        /\ lastOp.outcomes[1].source = "Unknown"
               <=> \A k \in 6..10 : ~Present(k)
        /\ \A case \in Cases :
               /\ input = KeywordRow({2, 5, 8, 10}, FALSE, case)
                      => /\ lastOp.outcomes[1].edition = "Exclusive"
                         /\ lastOp.outcomes[1].source = "Agent Gear"
               /\ input = KeywordRow({4, 5, 10}, TRUE, case)
                      => /\ lastOp.outcomes[1].edition = "Deluxe"
                         /\ lastOp.outcomes[1].source = "Store"

\* a row in capitals that names select before premium, and a night market
\* before an agent gear: the record says Premium and Agent Gear
C25_Witness ==
    /\ InfoExtracted
    /\ input = KeywordRow({3, 5, 8, 10}, FALSE, "UPPER")
    /\ lastOp.outcomes[1].edition = "Premium"
    /\ lastOp.outcomes[1].source = "Agent Gear"

\* the attempts the call has made so far
Attempts == SelectSeq(retry.trace, LAMBDA e : e.kind = "attempt")

Ended == retry.pc \in {"returned", "raised"}

\* at most max_retries attempts, numbered in the order they were made, none
\* after one that found prices, and a return hands over the prices of the
\* last attempt, which are not empty
BoundedSequential ==
    /\ Len(Attempts) <= retry.max
    /\ \A i \in 1..Len(Attempts) :
           /\ Attempts[i].n = i - 1
           /\ i < Len(Attempts) => Attempts[i].result # "prices"
    /\ retry.pc = "returned" =>
           /\ Attempts # <<>>
           /\ Attempts[Len(Attempts)].result = "prices"
           /\ retry.prices = Attempts[Len(Attempts)].prices
           /\ retry.prices # <<>>
           /\ lastOp.op = "scrape_with_retry"
           /\ ~lastOp.raised
           /\ lastOp.prices = retry.prices
    /\ retry.pc = "raised" =>
           (lastOp.op = "scrape_with_retry" /\ lastOp.raised)

\* C26: scrape_with_retry makes at most max_retries attempts, one after the
\* other, returns the prices of the first attempt that finds some without
\* starting another attempt, and always ends by returning or raising.
C26_BoundedRetry ==
    /\ []BoundedSequential
    /\ [][Ended => retry' = retry]_vars
    /\ (retry.pc # "idle") ~> Ended

\* a call that returned from its third attempt, after an exception and an
\* empty list
C26_Witness ==
    /\ retry.pc = "returned"
    /\ retry.max = MaxRetries
    /\ Len(Attempts) = 3
    /\ Attempts[1].result = "raised"
    /\ Attempts[2].result = "empty"
    /\ retry.prices # <<>>

\* the event after the i-th of the trace is the sleep of this attempt
SleepFollows(i) ==
    /\ i < Len(retry.trace)
    /\ retry.trace[i + 1].kind = "sleep"
    /\ retry.trace[i + 1].delay = 2 ^ retry.trace[i].n

\* C27: every attempt that raised or returned an empty list, and is not the
\* last one, is followed by a sleep of 2^attempt before the next attempt;
\* no sleep follows the last attempt.
C27_BackoffAfterEveryFailure ==
    \A i \in 1..Len(retry.trace) :
        retry.trace[i].kind = "attempt" =>
            /\ (/\ retry.trace[i].result \in {"raised", "empty"}
                /\ retry.trace[i].n < retry.max - 1
                /\ (i < Len(retry.trace) \/ retry.pc = "attempt"))
                   => SleepFollows(i)
            /\ retry.trace[i].n = retry.max - 1 => i = Len(retry.trace)

\* the attempts that raised
RaisedAttempts == SelectSeq(Attempts, LAMBDA e : e.result = "raised")

\* C28: when all the attempts have failed and one of them raised, the
\* caller gets the exception of the last attempt that raised.
C28_LastErrorPropagates ==
    (retry.pc = "raised" /\ RaisedAttempts # <<>>) =>
        retry.error = RaisedAttempts[Len(RaisedAttempts)].error

\* the first characters of the text are those of the prefix
StartsWith(text, prefix) ==
    Len(text) >= Len(prefix) /\ SubSeq(text, 1, Len(prefix)) = prefix

\* C29: when get_price raises, _load_prices lets no exception through and
\* sets the total to 0, and calculate_currency_amount then returns a string,
\* a formatted amount or an error-tagged text, without raising.
C29_DegradedState ==
    /\ lastOp.op = "load_prices" =>
           /\ ~lastOp.raised
           /\ lastOp.outcomes[1].raised => amount = JInt(0)
           /\ ~lastOp.outcomes[1].raised => amount = lastOp.outcomes[1].value
    /\ (client = "calculator" /\ lastOp.op = "convert_vp_to_currency") =>
           /\ ~lastOp.raised
           /\ lastOp.value.t = "str"
           /\ lastOp.price.some \/ StartsWith(lastOp.value.v, <<"E">>)
           /\ (amount = JInt(0) /\ lastOp.price.some) => lastOp.price.val = 0

\* the amount shown after a load that failed: the text of a zero amount
C29_Witness ==
    /\ client = "calculator"
    /\ lastOp.op = "convert_vp_to_currency"
    /\ amount = JInt(0)
    /\ lastOp.price = Some(0)
    /\ skinFile = Garbage

\* both writers have closed the file
BothClosed ==
    /\ Len(writers.procs) = 2
    /\ \A p \in 1..2 : writers.procs[p].pc = "closed"

\* C30: once two concurrent writers of one cache file have finished, the
\* file holds the complete entry of one of the two, in every interleaving
\* of their opens and writes; it is never a mix of both.
C30_LastWriterWins ==
    BothClosed =>
        \E p \in 1..2 : writers.disk = EntryText(writers.procs[p].entry)

\* the prices the price accuracy test knows
KnownTierPrices ==
    {875, 1275, 1775, 2175, 2375, 2475, 2675, 2975, 1750, 2550, 3550, 4350,
     4950, 5350, 5950}

\* C31: every price in the list DataSourceManager.get_prices returns is one
\* of the fifteen known tier prices.
C31_OnlyTierPrices ==
    (lastOp.op = "get_prices" /\ ~lastOp.raised) =>
        \A i \in 1..Len(lastOp.prices) : lastOp.prices[i] \in KnownTierPrices

\* what the dollar conversion of the amounts of the model returns
UsdText(vp) ==
    CASE vp = 0 -> <<"$", "0">>
      [] vp = 22 -> <<"$", "0", ".", "2">>
      [] vp = 1000 -> <<"$", "9", ".", "0", "9">>
      [] vp = 1100 -> <<"$", "1", "0">>
      [] vp = 1155 -> <<"$", "1", "0", ".", "5">>
      [] vp = 11000 -> <<"$", "1", "0", "0">>
      [] vp = 22000 -> <<"$", "2", "0", "0">>
      [] vp = 50000 -> <<"$", "4", "5", "4", ".", "5", "5">>

\* C32: for the dollar key convert_vp_to_currency runs no rate stage,
\* neither reads nor writes the rate cache, and returns the same string
\* whatever the rate cache holds and whatever the live API answers.
C32_UsdNeedsNoRates ==
    [][(/\ lastOp'.op = "convert_vp_to_currency"
        /\ input.key = "United States Dollar ($)")
       => /\ fxFile' = fxFile
          /\ fxWritten' = fxWritten
          /\ lastOp'.invoked = <<>>
          /\ lastOp'.outcomes = <<>>
          /\ lastOp'.cached = NoOp.cached
          /\ lastOp'.io = "none"
          /\ lastOp'.value = JStr(UsdText(input.vp))]_vars

\* a dollar amount returned while the rate cache file cannot be parsed
C32_Witness ==
    /\ lastOp.op = "convert_vp_to_currency"
    /\ input.key = "United States Dollar ($)"
    /\ input.vp = 1000
    /\ fxFile = Garbage
    /\ lastOp.value = JStr(<<"$", "9", ".", "0", "9">>)

\* C33: for a page with at least two tables, total_skins and total_price of
\* the analysis are the length and the sum of the list the scraper's
\* extraction returns for the same page, rows with a marked price of zero
\* or below included.
C33_VerifierCountsAsScraper ==
    (Analysed /\ Len(input) >= 2) =>
        /\ ~ExtractPricesFromSoup(input).raised
        /\ LastAnalysis.total_skins = Len(ExtractPricesFromSoup(input).prices)
        /\ Sum(LastAnalysis.prices) = Sum(ExtractPricesFromSoup(input).prices)

\* the text has a run of more than four digits
HasLongDigitRun(text) ==
    \E i \in 1..Len(text) :
        /\ i + 4 <= Len(text)
        /\ \A j \in i..(i + 4) : IsDigit(text[j])

\* a row extraction has just ended on a row without a marked cell
FallbackExtracted ==
    /\ lastOp.op \in {"scraper_row", "verifier_row"}
    /\ FirstMarked(input) = 0

\* C34: on the fallback path a price comes from a number of 3 or 4 digits
\* only: a cell whose only number has five digits or more gives no price,
\* and no price is read from a part of a longer run of digits.
C34_WholeNumbersOnly ==
    FallbackExtracted =>
        /\ input = <<Cell(FALSE, T_12345)>> => ~lastOp.price.some
        /\ lastOp.price.some =>
               \E i \in 1..Len(input) :
                   /\ FallbackCellPrice(input[i]) = lastOp.price
                   /\ ~HasLongDigitRun(Strip(input[i].text))

\* C35: get_exchange_rates never raises the exhaustion error: whatever the
\* live API answers and whatever the cache file holds, a call that runs the
\* stages returns a non-empty rate table, the static one when the stages
\* before it gave none.
C35_RatesNeverExhausted ==
    lastOp.op = "get_exchange_rates" =>
        /\ ~lastOp.raised
        /\ lastOp.invoked # <<>> =>
               /\ lastOp.value.t = "dict"
               /\ DOMAIN lastOp.value.v # {}
               /\ ~lastOp.outcomes[1].raised
               /\ Len(lastOp.invoked) = 3 => lastOp.value = JDict(FallbackRates)
               /\ Len(lastOp.invoked) = 1
                      => lastOp.value = JDict(lastOp.outcomes[1].results[1].rates)

\* a call that found the API down and could not write the cache file
C35_Witness ==
    /\ lastOp.op = "get_exchange_rates"
    /\ lastOp.invoked = <<"live", "secondary", "static">>
    /\ lastOp.outcomes[1].results[1].raised
    /\ lastOp.io = "write_error"
    /\ lastOp.value = JDict(FallbackRates)

\* none of the sources gave a non-empty list
AllFailed(outcomes) ==
    \A i \in 1..Len(outcomes) :
        outcomes[i].raised \/ outcomes[i].prices = <<>>

\* C36: a get_price that finds no usable cache entry (expired, absent or
\* unreadable) and whose sources all fail raises, returns no value, and
\* leaves the cache file exactly as it was.
C36_NoStaleTotal ==
    [][(/\ now' = now
        /\ lastOp'.op = "get_price"
        /\ ~GetCachedPrices(skinFile, now).hit
        /\ AllFailed(lastOp'.outcomes))
       => /\ lastOp'.raised
          /\ lastOp'.value = JNull
          /\ ~lastOp'.cached.hit
          /\ skinFile' = skinFile
          /\ skinWritten' = skinWritten]_vars

\* an entry of 2175 written at time 0 and expired, after a get_price that
\* tried its sources and raised
C36_Witness ==
    /\ lastOp.op = "get_price"
    /\ lastOp.raised
    /\ lastOp.invoked # <<>>
    /\ AllFailed(lastOp.outcomes)
    /\ skinFile = JObject(Number(T_2175), String(IsoFormat(0)))
    /\ now >= CACHE_DURATION

\* the step is a get_exchange_rates that ran its three stages and returned
\* the static table
FellBackToStatic ==
    /\ now' = now
    /\ lastOp'.op = "get_exchange_rates"
    /\ lastOp'.invoked = <<"live", "secondary", "static">>
    /\ ~lastOp'.raised

\* the cache file holding the static table, stamped with the time
StaticEntry(clock) ==
    JObject(JsonDump(JDict(FallbackRates)), String(IsoFormat(clock)))

\* the static table was written less than 24 hours ago, and no refresh has
\* been made since
StaticPinned ==
    /\ fxWritten.some
    /\ fxWritten.val = JDict(FallbackRates)
    /\ now - fxWritten.at < EXCHANGE_RATE_CACHE_DURATION

\* C37 as stated: once get_exchange_rates has fallen back to the static
\* table, the table is persisted with a fresh timestamp.
C37_StaticAlwaysPersisted ==
    [][FellBackToStatic => fxFile' = StaticEntry(now)]_vars

\* C37, when the write of the cache file succeeds: the static table is
\* persisted with the time of the call, and until 24 hours have passed or
\* refresh_rates is called every get_exchange_rates returns it from the
\* cache without running a stage, whatever the live API would answer.
C37_StaticPinnedWhenWritten ==
    [][/\ (FellBackToStatic /\ lastOp'.io = "ok")
          => /\ fxFile' = StaticEntry(now)
             /\ fxWritten' = Written(JDict(FallbackRates), now)
       /\ (StaticPinned /\ now' = now /\ lastOp'.op = "get_exchange_rates")
          => /\ lastOp'.cached.hit
             /\ lastOp'.invoked = <<>>
             /\ lastOp'.value = JDict(FallbackRates)
             /\ fxFile' = fxFile
       /\ (StaticPinned /\ lastOp'.op = "refresh_rates"
           /\ lastOp'.io = "ok")
          => (fxFile' = Absent /\ ~fxWritten'.some)]_vars

\* the static table served from the cache 21 hours after it was written
C37_Witness ==
    /\ lastOp.op = "get_exchange_rates"
    /\ lastOp.cached.hit
    /\ lastOp.invoked = <<>>
    /\ lastOp.value = JDict(FallbackRates)
    /\ StaticPinned
    /\ now - fxWritten.at = 21

\* C38 as stated: when scrape_fandom_wiki_sync or scrape_with_retry_sync has
\* returned or raised, every driver, browser and page the call started has
\* been stopped or closed.
C38_ResourcesReleased ==
    browser.pc = "returned" => browser.started \subseteq browser.released

\* C39 as stated: when refresh_prices has deleted the catalog cache and its
\* fetch fails, the calculator still holds the total it had before the
\* refresh.
C39_RefreshKeepsTotal ==
    [][(lastOp'.op = "refresh_prices" /\ lastOp'.outcomes[1].raised)
       => amount' = amount]_vars

=============================================================================
